---- MODULE Spec2Model ----
(***************************************************************************)
(* Model of the trace_* JSON-RPC handlers of silkrpc                       *)
(* (silkrpc/commands/trace_api.cpp).  Each handler is a coroutine; every   *)
(* co_await is a step of the handler, so that concurrently running         *)
(* handlers interleave between the steps.                                  *)
(***************************************************************************)
EXTENDS Integers, Sequences, FiniteSets, TLC

VARIABLES
    pc,         \* per handler: the position of the coroutine
    req,        \* per handler: the JSON-RPC request it was started with
    reply,      \* per handler: the reply object passed by reference
    tx,         \* per handler: the read transaction returned by begin() (0: none)
    closes,     \* per handler: how many times tx->close() was invoked
    indices,    \* trace_get: std::vector<std::uint16_t> indices
    blockNum,   \* block_with_hash.block.header.number (-1: not read)
    isLatest,   \* is_latest_block ("unknown" until computed)
    dbReader,   \* the DatabaseReader the executor was constructed with
    readerTx,   \* the read transaction that DatabaseReader reads through
    execCalls,  \* how many executor entry calls the handler made
    result,     \* the value the executor returned
    fault,      \* the exception caught by the handler's catch clauses
    written,    \* trace_transaction_stream: stream.write_json() calls
    open,       \* database: the read transactions that are open
    nextTx,     \* database: the id the next begin() hands out
    from_,          \* AccessListTracer: the sender of the transaction
    to_,            \* AccessListTracer: the recipient of the transaction
    opcode_names_,  \* AccessListTracer: the instruction names table
    access_list_,   \* AccessListTracer: the entries recorded so far
    last,           \* the arguments of the latest tracer callback
    prev,           \* access_list_ as it was before the latest callback
    steps,          \* how many on_instruction_start callbacks were made
    kv,             \* kv_seek: the position of main and its local variables
    stream,         \* kv_seek: the Write and Read calls made on the Tx stream
    chain,          \* rawdb: the latest chain accessor call and its outcome
    evm,            \* EVMExecutor: the latest call and what it returned
    compared        \* AccessListTracer::compare: its arguments and its value

\* the state of the trace_* handlers and of the database they use
handlerVars == <<pc, req, reply, tx, closes, indices, blockNum, isLatest,
                 dbReader, readerTx, execCalls, result, fault, written, open,
                 nextTx>>

\* the state of one AccessListTracer
tracerVars == <<from_, to_, opcode_names_, access_list_, last, prev, steps>>

\* the state of one run of kv_seek
kvVars == <<kv, stream>>

\* everything the trace_* handlers do not touch
otherVars == <<tracerVars, kvVars, chain, evm, compared>>

vars == <<handlerVars, otherVars>>

----------------------------------------------------------------------------
(* Bounds of the model *)

\* parameters a request carries: 0..MaxParams
MaxParams == 3
\* index strings in params[1] of trace_get: 0..MaxIndices
MaxIndices == 2
\* length of the trace list an executor call returns: 0..MaxTraces
MaxTraces == 3
\* height of the chain head; blocks 0..HeadNumber exist
HeadNumber == 1
\* max_fee_per_gas and gas_limit of a raw transaction
MaxFeePerGas == 2
MaxGasLimit == 2
\* wei per ether, scaled down
Ether == 2
\* the words on the EVM stack, and the addresses they denote: 0..MaxWord
MaxWord == 2
\* on_instruction_start callbacks one AccessListTracer receives
MaxSteps == 2
\* the cursor ids the KV server hands out: 0..MaxCursor
MaxCursor == 2
\* transactions in a block body: 0..MaxTransactions
MaxTransactions == 2
\* bytes by which a stored canonical hash can be longer than a hash
MaxExcess == 3
MaxValueLen == 9
MaxReasonLen == 33
\* entries of an access list given to compare, and storage keys of an entry
MaxEntries == 2
MaxKeys == 2

\* the handler invocations (coroutine frames) of the model
Reqs == {"r1", "r2"}
\* the invocations that run in the specification Spec
Solo == {"r1"}

----------------------------------------------------------------------------
(* The nine handlers and the streaming variant *)

Methods == {"trace_call", "trace_callMany", "trace_rawTransaction",
            "trace_replayBlockTransactions", "trace_replayTransaction",
            "trace_block", "trace_filter", "trace_get", "trace_transaction",
            "trace_transaction_stream"}

\* mutant of MinParams: trace_call is content with two parameters
MinParams_CallTwo(m) ==
    CASE m \in {"trace_call", "trace_callMany", "trace_rawTransaction",
                "trace_replayBlockTransactions", "trace_replayTransaction",
                "trace_get"} -> 2
      [] OTHER -> 1

\* params.size() < N  =>  error 100
MinParams(m) ==
    CASE m = "trace_call" -> 3
      [] m \in {"trace_callMany", "trace_rawTransaction",
                "trace_replayBlockTransactions", "trace_replayTransaction",
                "trace_get"} -> 2
      [] OTHER -> 1

----------------------------------------------------------------------------
(* Replies: make_json_error(id, code, message), make_json_content(id) and   *)
(* make_json_content(id, value)                                             *)

NoReply == [kind |-> "none", code |-> 0, msg |-> "", traces |-> <<>>]

make_json_error(code, message) ==
    [kind |-> "error", code |-> code, msg |-> message, traces |-> <<>>]

\* make_json_content(id): a reply whose result is null
EmptyContent == [kind |-> "empty", code |-> 0, msg |-> "", traces |-> <<>>]

\* make_json_content(id, traces): a reply whose result is the list
make_json_content(traces) ==
    [kind |-> "traces", code |-> 0, msg |-> "", traces |-> traces]

\* make_json_content(id, result[index]): a reply whose result is one frame
make_json_content_one(frame) ==
    [kind |-> "trace", code |-> 0, msg |-> "", traces |-> <<frame>>]

----------------------------------------------------------------------------
(* std::stoi(str, nullptr, 16) and the conversion to std::uint16_t         *)

IntMax == 2147483647
Uint16Mod == 65536

HexDigits == {"0", "1", "2", "3", "4", "5", "6", "7", "8", "9",
              "a", "b", "c", "d", "e", "f"}

HexVal(c) ==
    CASE c = "0" -> 0  [] c = "1" -> 1  [] c = "2" -> 2  [] c = "3" -> 3
      [] c = "4" -> 4  [] c = "5" -> 5  [] c = "6" -> 6  [] c = "7" -> 7
      [] c = "8" -> 8  [] c = "9" -> 9  [] c = "a" -> 10 [] c = "b" -> 11
      [] c = "c" -> 12 [] c = "d" -> 13 [] c = "e" -> 14 [] c = "f" -> 15

\* the value of the longest prefix of hexadecimal digits of s, digit by
\* digit; n counts the digits consumed
RECURSIVE HexPrefix(_, _, _)
HexPrefix(s, acc, n) ==
    IF s = <<>> \/ Head(s) \notin HexDigits
    THEN [val |-> acc, n |-> n]
    ELSE HexPrefix(Tail(s), 16 * acc + HexVal(Head(s)), n + 1)

\* std::stoi(str, nullptr, 16): optional sign, optional 0x prefix, hex
\* digits; throws std::invalid_argument when there is no digit and
\* std::out_of_range when the value does not fit an int
stoi(s) ==
    LET neg   == s # <<>> /\ Head(s) = "-"
        body  == IF s # <<>> /\ Head(s) \in {"-", "+"} THEN Tail(s) ELSE s
        pfx   == Len(body) >= 3 /\ body[1] = "0" /\ body[2] = "x"
                 /\ body[3] \in HexDigits
        digs  == IF pfx THEN Tail(Tail(body)) ELSE body
        p     == HexPrefix(digs, 0, 0)
        v     == IF neg THEN 0 - p.val ELSE p.val
    IN  IF p.n = 0 THEN [ok |-> FALSE, val |-> 0]
        ELSE IF v > IntMax \/ v < 0 - IntMax - 1 THEN [ok |-> FALSE, val |-> 0]
        ELSE [ok |-> TRUE, val |-> v]

\* the implicit conversion int -> std::uint16_t of the back_inserter
ToUint16(v) == v % Uint16Mod

\* std::transform(str_indices ..., stoi): the converted indices, or a throw
RECURSIVE TransformIndices(_)
TransformIndices(strs) ==
    IF strs = <<>> THEN [ok |-> TRUE, val |-> <<>>]
    ELSE LET h == stoi(Head(strs))
             t == TransformIndices(Tail(strs))
         IN  IF h.ok /\ t.ok
             THEN [ok |-> TRUE, val |-> <<ToUint16(h.val)>> \o t.val]
             ELSE [ok |-> FALSE, val |-> <<>>]

----------------------------------------------------------------------------
(* Requests *)

\* the index strings a trace_get request may carry
IndexStrings == { <<"0", "x", "0">>, <<"0", "x", "1">>, <<"2">>,
                  <<"f", "f", "f", "f">>, <<"1", "0", "0", "0", "0">>,
                  <<"-", "1">>, <<"z">> }

RECURSIVE SeqsUpTo(_, _)
SeqsUpTo(S, n) ==
    IF n = 0 THEN {<<>>}
    ELSE LET shorter == SeqsUpTo(S, n - 1)
         IN  shorter \cup {Append(q, x) : q \in shorter, x \in S}

\* params[0] of trace_rawTransaction: hex says whether from_hex accepts the
\* string, rlp whether rlp::decode accepts the bytes; the other fields are
\* those of the decoded transaction
NoRaw == [hex |-> FALSE, rlp |-> FALSE, max_fee_per_gas |-> 0, gas_limit |-> 0,
          replay_protected |-> FALSE, recoverable |-> FALSE]

RawTxs ==
    {NoRaw, [NoRaw EXCEPT !.hex = TRUE]}
    \cup [hex : {TRUE}, rlp : {TRUE}, max_fee_per_gas : 0..MaxFeePerGas,
          gas_limit : 0..MaxGasLimit, replay_protected : BOOLEAN,
          recoverable : BOOLEAN]

\* bad: the position (1-based) of the first parameter that get<T>() cannot
\* convert to its type, 0 when every parameter converts
\* a request too short to be parsed carries nothing else the handler reads
Requests ==
    UNION {
      { q \in [method : {m}, nparams : 0..MaxParams, bad : 0..MinParams(m),
               raw : IF m = "trace_rawTransaction" THEN RawTxs ELSE {NoRaw},
               indices : IF m = "trace_get"
                         THEN SeqsUpTo(IndexStrings, MaxIndices)
                         ELSE {<<>>}] :
            q.nparams < MinParams(m)
                => q.bad = 0 /\ q.raw = NoRaw /\ q.indices = <<>> }
      : m \in Methods }

----------------------------------------------------------------------------
(* The handlers up to co_await database_->begin()                          *)

InvalidParamsMsg(m) ==
    CASE m = "trace_call" -> "invalid trace_call params"
      [] m = "trace_callMany" -> "invalid trace_callMany params"
      [] m = "trace_rawTransaction" -> "invalid trace_rawTransaction params"
      [] m = "trace_replayBlockTransactions" ->
             "invalid trace_replayBlockTransactions params"
      [] m = "trace_replayTransaction" -> "invalid trace_replayTransaction params"
      [] m = "trace_block" -> "invalid trace_block params"
      [] m = "trace_filter" -> "invalid trace_filter params"
      [] m = "trace_get" -> "invalid trace_get params"
      [] OTHER -> "invalid trace_transaction params"

\* the outcome of the synchronous prefix of a handler: co_return with a
\* reply ("done"), an exception leaving the handler ("threw"), or the
\* handler going on to begin() ("begin")
Outcome(next, rep, idx) == [next |-> next, reply |-> rep, indices |-> idx]

\* if (params.size() < N) { reply = make_json_error(id, 100, msg); co_return; }
TooFewParams(q) ==
    Outcome("done", make_json_error(100, InvalidParamsMsg(q.method)), <<>>)

\* const auto x = params[i].get<T>(): throws when a parameter has not the
\* shape of T; the statements stand before the try block
ParseParams(q) ==
    IF q.bad # 0 THEN Outcome("threw", NoReply, <<>>)
    ELSE Outcome("begin", NoReply, <<>>)

\* trace_call, trace_callMany, trace_replayBlockTransactions,
\* trace_replayTransaction, trace_block, trace_filter, trace_transaction
EntryPlain(q) ==
    IF q.nparams < MinParams(q.method) THEN TooFewParams(q)
    ELSE ParseParams(q)

\* check_tx_fee_less_cap(cap, max_fee_per_gas, gas_limit): the fee in ether
\* does not exceed the cap (a cap of 0 means no cap)
check_tx_fee_less_cap(cap, max_fee_per_gas, gas_limit) ==
    cap = 0 \/ max_fee_per_gas * gas_limit <= cap * Ether

is_replay_protected(t) == t.replay_protected

\* transaction.recover_sender(); transaction.from.has_value()
sender_recovered(t) == t.recoverable

\* const float kTxFeeCap = 1; // 1 ether
kTxFeeCap == 1

\* mutant of EntryRawTransaction: the sender check is missing
EntryRawTransaction_NoSenderCheck(q) ==
    IF q.nparams < 2 THEN TooFewParams(q)
    ELSE IF q.bad = 1 THEN Outcome("threw", NoReply, <<>>)
    ELSE IF ~q.raw.hex
    THEN Outcome("done",
             make_json_error(-32602, "invalid trace_rawTransaction encoded tx"),
             <<>>)
    ELSE IF ~q.raw.rlp
    THEN Outcome("done", make_json_error(-32000, "rlp decoding error"), <<>>)
    ELSE IF ~check_tx_fee_less_cap(kTxFeeCap, q.raw.max_fee_per_gas,
                                   q.raw.gas_limit)
    THEN Outcome("done",
             make_json_error(-32000, "tx fee exceeds the configured cap"), <<>>)
    ELSE IF ~is_replay_protected(q.raw)
    THEN Outcome("done",
             make_json_error(-32000,
                 "only replay-protected (EIP-155) transactions allowed over RPC"),
             <<>>)
    ELSE IF q.bad = 2 THEN Outcome("threw", NoReply, <<>>)
    ELSE Outcome("begin", NoReply, <<>>)

EntryRawTransaction(q) ==
    IF q.nparams < 2 THEN TooFewParams(q)
    ELSE IF q.bad = 1 THEN Outcome("threw", NoReply, <<>>)
    ELSE IF ~q.raw.hex
    THEN Outcome("done",
             make_json_error(-32602, "invalid trace_rawTransaction encoded tx"),
             <<>>)
    ELSE IF ~q.raw.rlp
    THEN Outcome("done", make_json_error(-32000, "rlp decoding error"), <<>>)
    ELSE IF ~check_tx_fee_less_cap(kTxFeeCap, q.raw.max_fee_per_gas,
                                   q.raw.gas_limit)
    THEN Outcome("done",
             make_json_error(-32000, "tx fee exceeds the configured cap"), <<>>)
    ELSE IF ~is_replay_protected(q.raw)
    THEN Outcome("done",
             make_json_error(-32000,
                 "only replay-protected (EIP-155) transactions allowed over RPC"),
             <<>>)
    ELSE IF ~sender_recovered(q.raw)
    THEN Outcome("done", make_json_error(-32000, "cannot recover sender"), <<>>)
    ELSE IF q.bad = 2 THEN Outcome("threw", NoReply, <<>>)
    ELSE Outcome("begin", NoReply, <<>>)

\* mutant of EntryGet: the test indices.size() > 1 is missing
EntryGet_NoManyCheck(q) ==
    IF q.nparams < 2 THEN TooFewParams(q)
    ELSE IF q.bad # 0 THEN Outcome("threw", NoReply, <<>>)
    ELSE LET idx == TransformIndices(q.indices)
         IN  IF ~idx.ok THEN Outcome("threw", NoReply, <<>>)
             ELSE Outcome("begin", NoReply, idx.val)

EntryGet(q) ==
    IF q.nparams < 2 THEN TooFewParams(q)
    ELSE IF q.bad # 0 THEN Outcome("threw", NoReply, <<>>)
    ELSE LET idx == TransformIndices(q.indices)
         IN  IF ~idx.ok THEN Outcome("threw", NoReply, <<>>)
             ELSE IF Len(idx.val) > 1
             THEN Outcome("done", EmptyContent, idx.val)
             ELSE Outcome("begin", NoReply, idx.val)

\* handle_trace_transaction_stream: the error is built and not written
EntryStream(q) ==
    IF q.nparams < 1 THEN Outcome("done", NoReply, <<>>)
    ELSE ParseParams(q)

Entry(q) ==
    CASE q.method = "trace_rawTransaction" -> EntryRawTransaction(q)
      [] q.method = "trace_get" -> EntryGet(q)
      [] q.method = "trace_transaction_stream" -> EntryStream(q)
      [] OTHER -> EntryPlain(q)

----------------------------------------------------------------------------
(* The handlers from begin() to close()                                    *)

PreCheckMethods == {"trace_call", "trace_callMany", "trace_rawTransaction",
                    "trace_replayTransaction", "trace_filter"}

BlockMethods == {"trace_call", "trace_callMany",
                 "trace_replayBlockTransactions", "trace_block"}

TxHashMethods == {"trace_replayTransaction", "trace_get", "trace_transaction",
                  "trace_transaction_stream"}

\* the first co_await inside the try block
FirstStep(m) ==
    CASE m \in BlockMethods -> "read_block"
      [] m = "trace_rawTransaction" -> "latest_number"
      [] m \in TxHashMethods -> "read_tx"
      [] OTHER -> "executor"

\* what a co_await inside the try block can throw
FaultMessages == {"what"}
NoFault == [kind |-> "none", msg |-> ""]
Faults == [kind : {"std"}, msg : FaultMessages] \cup {[kind |-> "other", msg |-> ""]}

\* catch (const std::exception& e) { ... } catch (...) { ... }
CatchReply(m, f, old) ==
    IF m = "trace_transaction_stream" THEN old
    ELSE IF f.kind = "std"
    THEN IF m \in {"trace_get", "trace_transaction"} THEN EmptyContent
         ELSE make_json_error(100, f.msg)
    ELSE make_json_error(100, "unexpected exception")

\* what the executor entry points return: a list of frames, numbered in
\* execution order, and for the entry points that have one a pre_check_error
PreCheckReasons == {"intrinsic gas too low"}
TraceLists == {[i \in 1..n |-> i] : n \in 0..MaxTraces}
NoResult == [returned |-> FALSE, pre_check_error |-> <<>>, traces |-> <<>>]
ExecResults(m) ==
    [returned : {TRUE},
     pre_check_error : IF m \in PreCheckMethods
                       THEN {<<>>} \cup {<<e>> : e \in PreCheckReasons}
                       ELSE {<<>>},
     traces : TraceLists]

\* mutant of DbReaderFor: the state cache is never used
DbReaderFor_NeverCached(m, latest) == "tx_database"

\* core::rawdb::DatabaseReader& db_reader = is_latest_block ? cached_database
\* : tx_database (trace_call, trace_callMany); tx_database elsewhere
DbReaderFor(m, latest) ==
    IF m \in {"trace_call", "trace_callMany"} /\ latest = "true"
    THEN "cached_database" ELSE "tx_database"

NotFoundReply_Fault(m, old) ==
    make_json_error(100, "transaction 0x<hash> not found")

\* if (!tx_with_block) { ... }; <hash> stands for the digits operator<<
\* prints for params[0]
NotFoundReply(m, old) ==
    CASE m = "trace_replayTransaction" ->
             make_json_error(-32000, "transaction 0x<hash> not found")
      [] m \in {"trace_get", "trace_transaction"} -> EmptyContent
      [] OTHER -> old

\* mutant of GetReply: the index is used without the offset
GetReply_NoOffset(res, i0) ==
    LET index == i0
    IN  IF Len(res.traces) > index
        THEN make_json_content_one(res.traces[index + 1])
        ELSE EmptyContent

\* auto index = indices[0] + 1; result.size() > index ? result[index] : empty
GetReply(res, i0) ==
    LET index == i0 + 1
    IN  IF Len(res.traces) > index
        THEN make_json_content_one(res.traces[index + 1])
        ELSE EmptyContent

\* mutant of ResultReply: the pre_check_error is not looked at
ResultReply_IgnorePreCheck(m, res, i0) ==
    CASE m = "trace_get" -> GetReply(res, i0)
      [] OTHER -> make_json_content(res.traces)

\* the reply built from the value the executor returned
ResultReply(m, res, i0) ==
    CASE m \in PreCheckMethods ->
             IF res.pre_check_error # <<>>
             THEN make_json_error(-32000, res.pre_check_error[1])
             ELSE make_json_content(res.traces)
      [] m = "trace_get" -> GetReply(res, i0)
      [] OTHER -> make_json_content(res.traces)

\* indices[0] of an empty vector is undefined: any value, or no value at all
UndefinedIndex == {0, 1, Uint16Mod - 1}

----------------------------------------------------------------------------
(* The components the handlers do not touch, before they are used          *)

\* the arguments of an on_instruction_start callback
NoCallback == [opcode |-> 0, stack |-> <<>>, recipient |-> <<>>]

\* no AccessListTracer has been constructed
TracerIdle ==
    /\ from_ = <<>>
    /\ to_ = <<>>
    /\ opcode_names_ = <<>>
    /\ access_list_ = <<>>
    /\ last = NoCallback
    /\ prev = <<>>
    /\ steps = 0

\* kv_seek has not been started
KvNotStarted == [pc |-> "not_started", table |-> "", seekkey |-> "",
                 target |-> "", cursor_id |-> 0, exit |-> 0]

KvIdle ==
    /\ kv = KvNotStarted
    /\ stream = <<>>

\* no chain accessor has been called
NoChainCall == [op |-> "none", value |-> <<>>, ntx |-> 0, outcome |-> "none",
                hash |-> <<>>, from |-> <<>>]

ChainIdle == chain = NoChainCall

\* no EVMExecutor call was made
NoEvmCall == [op |-> "none"]

EvmIdle == evm = NoEvmCall

\* compare was given no arguments
NoCompare == [op |-> "none"]

CompareIdle == compared = NoCompare

NoRequest == [method |-> "none", nparams |-> 0, bad |-> 0, raw |-> NoRaw,
              indices |-> <<>>]

HandlerInit ==
    /\ pc = [r \in Reqs |-> "idle"]
    /\ req = [r \in Reqs |-> NoRequest]
    /\ reply = [r \in Reqs |-> NoReply]
    /\ tx = [r \in Reqs |-> 0]
    /\ closes = [r \in Reqs |-> 0]
    /\ indices = [r \in Reqs |-> <<>>]
    /\ blockNum = [r \in Reqs |-> -1]
    /\ isLatest = [r \in Reqs |-> "unknown"]
    /\ dbReader = [r \in Reqs |-> "none"]
    /\ readerTx = [r \in Reqs |-> 0]
    /\ execCalls = [r \in Reqs |-> 0]
    /\ result = [r \in Reqs |-> NoResult]
    /\ fault = [r \in Reqs |-> NoFault]
    /\ written = [r \in Reqs |-> <<>>]
    /\ open = {}
    /\ nextTx = 1

Init == HandlerInit /\ TracerIdle /\ KvIdle /\ ChainIdle /\ EvmIdle
        /\ CompareIdle

\* the handler is called with a request and runs up to its first co_await
InvokeWith(r, Q) ==
    /\ pc[r] = "idle"
    /\ \E q \in Q :
         LET o == Entry(q)
         IN  /\ req' = [req EXCEPT ![r] = q]
             /\ reply' = [reply EXCEPT ![r] = o.reply]
             /\ indices' = [indices EXCEPT ![r] = o.indices]
             /\ pc' = [pc EXCEPT ![r] = o.next]
    /\ UNCHANGED <<tx, closes, blockNum, isLatest, dbReader, readerTx,
                   execCalls, result, fault, written, open, nextTx>>
    /\ UNCHANGED otherVars

\* auto tx = co_await database_->begin();
Begin(r) ==
    /\ pc[r] = "begin"
    /\ tx' = [tx EXCEPT ![r] = nextTx]
    /\ open' = open \cup {nextTx}
    /\ nextTx' = nextTx + 1
    /\ pc' = [pc EXCEPT ![r] = FirstStep(req[r].method)]
    /\ UNCHANGED <<req, reply, closes, indices, blockNum, isLatest, dbReader,
                   readerTx, execCalls, result, fault, written>>
    /\ UNCHANGED otherVars

\* mutant of Throw: the catch clauses return without reaching close()
Throw_ReturnInCatch(r) ==
    /\ pc[r] \in {"latest_number", "read_block", "is_latest", "read_tx",
                  "executing"}
    /\ \E f \in Faults :
         /\ fault' = [fault EXCEPT ![r] = f]
         /\ reply' = [reply EXCEPT ![r] = CatchReply(req[r].method, f, reply[r])]
    /\ pc' = [pc EXCEPT ![r] = "done"]
    /\ UNCHANGED <<req, tx, closes, indices, blockNum, isLatest, dbReader,
                   readerTx, execCalls, result, written, open, nextTx>>
    /\ UNCHANGED otherVars

\* an exception thrown by the awaited call at pc[r] is caught by the
\* handler's catch clauses, which set the reply; the handler goes on to close
Throw(r) ==
    /\ pc[r] \in {"latest_number", "read_block", "is_latest", "read_tx",
                  "executing"}
    /\ \E f \in Faults :
         /\ fault' = [fault EXCEPT ![r] = f]
         /\ reply' = [reply EXCEPT ![r] = CatchReply(req[r].method, f, reply[r])]
    /\ pc' = [pc EXCEPT ![r] = "close"]
    /\ UNCHANGED <<req, tx, closes, indices, blockNum, isLatest, dbReader,
                   readerTx, execCalls, result, written, open, nextTx>>
    /\ UNCHANGED otherVars

\* const auto block_number = co_await core::get_latest_block_number(tx_database);
GetLatestBlockNumber(r) ==
    /\ pc[r] = "latest_number"
    /\ blockNum' = [blockNum EXCEPT ![r] = HeadNumber]
    /\ pc' = [pc EXCEPT ![r] = "read_block"]
    /\ UNCHANGED <<req, reply, tx, closes, indices, isLatest, dbReader,
                   readerTx, execCalls, result, fault, written, open,
                   nextTx>>
    /\ UNCHANGED otherVars

\* co_await core::read_block_by_number_or_hash(...) / read_block_by_number(...)
ReadBlock(r) ==
    /\ pc[r] = "read_block"
    /\ \E n \in 0..HeadNumber :
         /\ req[r].method = "trace_rawTransaction" => n = blockNum[r]
         /\ blockNum' = [blockNum EXCEPT ![r] = n]
    /\ pc' = [pc EXCEPT ![r] =
                 IF req[r].method \in {"trace_call", "trace_callMany"}
                 THEN "is_latest" ELSE "executor"]
    /\ UNCHANGED <<req, reply, tx, closes, indices, isLatest, dbReader,
                   readerTx, execCalls, result, fault, written, open,
                   nextTx>>
    /\ UNCHANGED otherVars

\* core::is_latest_block_number(number, reader): the number is that of the
\* chain head
is_latest_block_number(n) == n = HeadNumber

\* const bool is_latest_block = co_await core::is_latest_block_number(...)
IsLatestBlock(r) ==
    /\ pc[r] = "is_latest"
    /\ isLatest' = [isLatest EXCEPT ![r] =
                       IF is_latest_block_number(blockNum[r]) THEN "true"
                       ELSE "false"]
    /\ pc' = [pc EXCEPT ![r] = "executor"]
    /\ UNCHANGED <<req, reply, tx, closes, indices, blockNum, dbReader,
                   readerTx, execCalls, result, fault, written, open,
                   nextTx>>
    /\ UNCHANGED otherVars

\* co_await core::read_transaction_by_hash(...): the transaction with its
\* block, or an empty optional
ReadTransactionByHash(r) ==
    /\ pc[r] = "read_tx"
    /\ \/ /\ reply' = [reply EXCEPT ![r] = NotFoundReply(req[r].method, reply[r])]
          /\ pc' = [pc EXCEPT ![r] =
                       IF req[r].method = "trace_transaction_stream"
                       THEN "write_json" ELSE "close"]
          /\ UNCHANGED blockNum
       \/ /\ \E n \in 0..HeadNumber : blockNum' = [blockNum EXCEPT ![r] = n]
          /\ pc' = [pc EXCEPT ![r] =
                       IF req[r].method = "trace_transaction_stream"
                       THEN "close" ELSE "executor"]
          /\ UNCHANGED reply
    /\ UNCHANGED <<req, tx, closes, indices, isLatest, dbReader, readerTx,
                   execCalls, result, fault, written, open, nextTx>>
    /\ UNCHANGED otherVars

ReaderTransaction_First(txs, r) == 1

\* ethdb::TransactionDatabase tx_database{*tx}; ethdb::kv::CachedDatabase
\* cached_database{block_number_or_hash, *tx, *context_.state_cache()}: both
\* readers read through the transaction begin() returned to this handler
ReaderTransaction(txs, r) == txs[r]

\* trace::TraceCallExecutor executor{..., db_reader, workers_};
\* co_await executor.trace_xxx(...): the call is made
ExecutorCall(r) ==
    /\ pc[r] = "executor"
    /\ dbReader' = [dbReader EXCEPT ![r] = DbReaderFor(req[r].method, isLatest[r])]
    /\ readerTx' = [readerTx EXCEPT ![r] = ReaderTransaction(tx, r)]
    /\ execCalls' = [execCalls EXCEPT ![r] = @ + 1]
    /\ pc' = [pc EXCEPT ![r] = "executing"]
    /\ UNCHANGED <<req, reply, tx, closes, indices, blockNum, isLatest, result,
                   fault, written, open, nextTx>>
    /\ UNCHANGED otherVars

\* the executor returns and the handler builds the reply from the result
ExecutorReturn(r) ==
    /\ pc[r] = "executing"
    /\ \E res \in ExecResults(req[r].method) :
         /\ result' = [result EXCEPT ![r] = res]
         /\ IF req[r].method = "trace_get" /\ indices[r] = <<>>
            THEN \/ \E u \in UndefinedIndex :
                      /\ reply' = [reply EXCEPT ![r] = GetReply(res, u)]
                      /\ pc' = [pc EXCEPT ![r] = "close"]
                 \/ /\ pc' = [pc EXCEPT ![r] = "crashed"]
                    /\ UNCHANGED reply
            ELSE /\ reply' = [reply EXCEPT ![r] =
                        ResultReply(req[r].method, res,
                            IF indices[r] = <<>> THEN 0 ELSE indices[r][1])]
                 /\ pc' = [pc EXCEPT ![r] = "close"]
    /\ UNCHANGED <<req, tx, closes, indices, blockNum, isLatest, dbReader,
                   readerTx, execCalls, fault, written, open, nextTx>>
    /\ UNCHANGED otherVars

\* co_await stream.write_json(reply);
WriteJson(r) ==
    /\ pc[r] = "write_json"
    /\ written' = [written EXCEPT ![r] = Append(@, EmptyContent)]
    /\ pc' = [pc EXCEPT ![r] = "close"]
    /\ UNCHANGED <<req, reply, tx, closes, indices, blockNum, isLatest,
                   dbReader, readerTx, execCalls, result, fault, open,
                   nextTx>>
    /\ UNCHANGED otherVars

\* mutant of Close: close() ends every open read transaction
Close_All(r) ==
    /\ pc[r] = "close"
    /\ open' = {}
    /\ closes' = [closes EXCEPT ![r] = @ + 1]
    /\ pc' = [pc EXCEPT ![r] = "done"]
    /\ UNCHANGED <<req, reply, tx, indices, blockNum, isLatest, dbReader,
                   readerTx, execCalls, result, fault, written, nextTx>>
    /\ UNCHANGED otherVars

\* co_await tx->close(); co_return;
Close(r) ==
    /\ pc[r] = "close"
    /\ open' = open \ {tx[r]}
    /\ closes' = [closes EXCEPT ![r] = @ + 1]
    /\ pc' = [pc EXCEPT ![r] = "done"]
    /\ UNCHANGED <<req, reply, tx, indices, blockNum, isLatest, dbReader,
                   readerTx, execCalls, result, fault, written, nextTx>>
    /\ UNCHANGED otherVars

Invoke(r) == InvokeWith(r, Requests)

Next ==
    \E r \in Solo :
        \/ Invoke(r)
        \/ Begin(r)
        \/ Throw(r)
        \/ GetLatestBlockNumber(r)
        \/ ReadBlock(r)
        \/ IsLatestBlock(r)
        \/ ReadTransactionByHash(r)
        \/ ExecutorCall(r)
        \/ ExecutorReturn(r)
        \/ WriteJson(r)
        \/ Close(r)

Spec == Init /\ [][Next]_vars

----------------------------------------------------------------------------
(* Cancellation of a request                                               *)

\* the positions at which a handler is suspended in a call awaited inside
\* its try block
AwaitingInTry == {"latest_number", "read_block", "is_latest", "read_tx",
                  "executing"}

\* a pending operation of an abandoned request fails with Cancelled
Cancelled == [kind |-> "std", msg |-> "Cancelled"]

\* mutant of AfterCatch: the catch clauses return from the handler
AfterCatch_Return == "done"

\* the statement a handler goes on with after its catch clauses:
\* co_await tx->close();
AfterCatch == "close"

\* the request is cancelled while the handler is suspended: the awaited call
\* fails with Cancelled, the catch clauses of the handler receive it and the
\* handler goes on to close
Cancel(r) ==
    /\ pc[r] \in AwaitingInTry
    /\ fault' = [fault EXCEPT ![r] = Cancelled]
    /\ reply' = [reply EXCEPT ![r] =
                    CatchReply(req[r].method, Cancelled, reply[r])]
    /\ pc' = [pc EXCEPT ![r] = AfterCatch]
    /\ UNCHANGED <<req, tx, closes, indices, blockNum, isLatest, dbReader,
                   readerTx, execCalls, result, written, open, nextTx>>
    /\ UNCHANGED otherVars

NextCancel ==
    \E r \in Solo :
        \/ Invoke(r)
        \/ Begin(r)
        \/ Throw(r)
        \/ Cancel(r)
        \/ GetLatestBlockNumber(r)
        \/ ReadBlock(r)
        \/ IsLatestBlock(r)
        \/ ReadTransactionByHash(r)
        \/ ExecutorCall(r)
        \/ ExecutorReturn(r)
        \/ WriteJson(r)
        \/ Close(r)

\* the io_context resumes every coroutine that is ready to run
SpecCancel == Init /\ [][NextCancel]_vars /\ WF_vars(NextCancel)

----------------------------------------------------------------------------
(* Handlers running concurrently                                           *)

\* the requests of the concurrent runs: trace_block and trace_filter, with
\* and without their parameter
ConcRequests ==
    {q \in Requests : /\ q.method \in {"trace_block", "trace_filter"}
                      /\ q.nparams <= 1
                      /\ q.bad = 0}

InvokeConc(r) == InvokeWith(r, ConcRequests)

NextConc ==
    \E r \in Reqs :
        \/ InvokeConc(r)
        \/ Begin(r)
        \/ Throw(r)
        \/ ReadBlock(r)
        \/ ExecutorCall(r)
        \/ ExecutorReturn(r)
        \/ Close(r)

SpecConc == Init /\ [][NextConc]_vars

----------------------------------------------------------------------------
(* Properties of the handlers *)

\* the nine trace_* handlers that take a reply object
ReplyMethods == Methods \ {"trace_transaction_stream"}

\* the handler has been called
Called(r) == pc[r] # "idle"

\* the handler has left: co_return, or an exception that left the coroutine
Returned(r) == pc[r] \in {"done", "threw"}

\* the number of parameters each method is documented to require
RequiredParams(m) ==
    CASE m = "trace_call" -> 3
      [] m = "trace_callMany" -> 2
      [] m = "trace_rawTransaction" -> 2
      [] m = "trace_replayBlockTransactions" -> 2
      [] m = "trace_replayTransaction" -> 2
      [] m = "trace_get" -> 2
      [] m = "trace_block" -> 1
      [] m = "trace_filter" -> 1
      [] m = "trace_transaction" -> 1

\* C1: in every trace_* handler, once begin() has returned a read
\* transaction, close() is invoked on it exactly once before the handler
\* returns, whichever way the try block was left (result, pre-check error,
\* transaction not found, std::exception, any other exception); close() is
\* never invoked twice and never without a transaction.
C1_CloseExactlyOnce ==
    \A r \in Reqs :
        /\ closes[r] <= 1
        /\ closes[r] = 1 => tx[r] # 0 /\ tx[r] \notin open
        /\ (Returned(r) /\ tx[r] # 0) => closes[r] = 1
        /\ (tx[r] # 0 /\ closes[r] = 0) => tx[r] \in open

\* C1 witness: a handler that caught a non-std exception has returned with
\* its transaction closed.
C1_Witness ==
    \E r \in Reqs :
        /\ req[r].method \in ReplyMethods
        /\ pc[r] = "done" /\ fault[r].kind = "other"
        /\ tx[r] # 0 /\ closes[r] = 1

\* C2 (as claimed): in each of the nine handlers an exception caught while
\* the request is processed yields the error reply 100 with e.what(), or
\* with "unexpected exception" for a non-std exception.
C2_FaultRepliesError100 ==
    \A r \in Reqs :
        (req[r].method \in ReplyMethods /\ fault[r].kind # "none") =>
            reply[r] = make_json_error(100,
                           IF fault[r].kind = "std" THEN fault[r].msg
                           ELSE "unexpected exception")

\* C3: for trace_call, trace_callMany, trace_rawTransaction,
\* trace_replayTransaction and trace_filter, when the executor returned a
\* result carrying a pre_check_error the reply is the error -32000 with that
\* reason and carries no traces, otherwise the reply is the content with the
\* result's traces; the pre-check error arrives in the returned value, no
\* exception is involved.
C3_PreCheckInBand ==
    \A r \in Reqs :
        (req[r].method \in {"trace_call", "trace_callMany",
                            "trace_rawTransaction", "trace_replayTransaction",
                            "trace_filter"}
         /\ result[r].returned) =>
            /\ fault[r] = NoFault
            /\ IF result[r].pre_check_error # <<>>
               THEN /\ reply[r].kind = "error" /\ reply[r].code = -32000
                    /\ reply[r].msg = result[r].pre_check_error[1]
                    /\ reply[r].traces = <<>>
               ELSE /\ reply[r].kind = "traces"
                    /\ reply[r].traces = result[r].traces

\* C3 witness: an executor result that carries both a pre-check error and
\* traces was answered.
C3_Witness ==
    \E r \in Reqs :
        /\ req[r].method = "trace_filter" /\ pc[r] = "done"
        /\ result[r].returned /\ result[r].pre_check_error # <<>>
        /\ result[r].traces # <<>>
        /\ reply[r].kind = "error"

\* C4: a request with fewer parameters than its method requires (3 for
\* trace_call, 2 for trace_callMany, trace_rawTransaction,
\* trace_replayBlockTransactions, trace_replayTransaction and trace_get,
\* 1 for trace_block, trace_filter and trace_transaction) is answered with
\* error 100; no read transaction is opened and the executor is not invoked.
C4_TooFewParams ==
    \A r \in Reqs :
        (req[r].method \in ReplyMethods /\ Called(r)
         /\ req[r].nparams < RequiredParams(req[r].method)) =>
            /\ pc[r] = "done"
            /\ reply[r].kind = "error" /\ reply[r].code = 100
            /\ tx[r] = 0 /\ closes[r] = 0 /\ execCalls[r] = 0

\* C4 witness: trace_call was called with two parameters.
C4_Witness ==
    \E r \in Reqs :
        /\ req[r].method = "trace_call" /\ req[r].nparams = 2
        /\ pc[r] = "done" /\ reply[r].code = 100

\* a parameter of the request cannot be converted to its expected type
Malformed(q) ==
    \/ q.bad # 0
    \/ q.method = "trace_rawTransaction" /\ ~q.raw.hex

\* C5 (as claimed): a request with enough parameters and a malformed
\* parameter field is answered by the handler with error -32602, for every
\* trace_* method.
C5_MalformedReplies32602 ==
    \A r \in Reqs :
        (req[r].method \in ReplyMethods /\ Called(r)
         /\ req[r].nparams >= RequiredParams(req[r].method)
         /\ Malformed(req[r])) =>
            /\ reply[r].kind = "error" /\ reply[r].code = -32602

\* C6 (as claimed): a raw transaction that is valid hex and fails RLP
\* decoding is answered with error 100.
C6_DecodingReplies100 ==
    \A r \in Reqs :
        (req[r].method = "trace_rawTransaction" /\ Called(r)
         /\ req[r].nparams >= 2 /\ req[r].bad # 1
         /\ req[r].raw.hex /\ ~req[r].raw.rlp) =>
            /\ reply[r].kind = "error" /\ reply[r].code = 100

\* the executor has been constructed against a block
ExecutesOnBlock(r) == execCalls[r] > 0 /\ blockNum[r] # -1

\* C7 (as claimed): in every handler that executes against a block the
\* executor reads through the state cache exactly when that block is the
\* chain head, and through the transaction's database reader otherwise.
C7_CacheIffHeadEverywhere ==
    \A r \in Reqs :
        ExecutesOnBlock(r) =>
            dbReader[r] = IF blockNum[r] = HeadNumber THEN "cached_database"
                          ELSE "tx_database"

\* C7 (amended): trace_call and trace_callMany construct the executor on the
\* state cache exactly when the block is the chain head and on the
\* transaction's database reader otherwise; every other handler constructs
\* it on the transaction's database reader, head or not; a handler
\* constructs one executor, so the choice is made once.
C7_CacheIffHeadInCall ==
    \A r \in Reqs :
        /\ execCalls[r] <= 1
        /\ execCalls[r] = 0 <=> dbReader[r] = "none"
        /\ ExecutesOnBlock(r) =>
              dbReader[r] =
                  IF req[r].method \in {"trace_call", "trace_callMany"}
                     /\ blockNum[r] = HeadNumber
                  THEN "cached_database" ELSE "tx_database"
        /\ (execCalls[r] > 0 /\ blockNum[r] = -1) => dbReader[r] = "tx_database"

\* C7 witness: trace_callMany executed against the chain head through the
\* state cache.
C7_Witness ==
    \E r \in Reqs :
        /\ req[r].method = "trace_callMany" /\ pc[r] = "done"
        /\ blockNum[r] = HeadNumber /\ dbReader[r] = "cached_database"
        /\ result[r].returned

\* every index string of the request is one std::stoi accepts
IndicesParse(q) == \A k \in 1..Len(q.indices) : stoi(q.indices[k]).ok

\* C8: trace_get called with more than one index replies with empty
\* content, without opening a read transaction, looking up the transaction
\* or invoking the executor.
C8_ManyIndicesEmpty ==
    \A r \in Reqs :
        (req[r].method = "trace_get" /\ Called(r)
         /\ req[r].nparams >= 2 /\ req[r].bad = 0
         /\ IndicesParse(req[r]) /\ Len(req[r].indices) > 1) =>
            /\ pc[r] = "done" /\ reply[r] = EmptyContent
            /\ tx[r] = 0 /\ blockNum[r] = -1 /\ execCalls[r] = 0

\* C8 witness: trace_get was called with two indices.
C8_Witness ==
    \E r \in Reqs :
        /\ req[r].method = "trace_get" /\ pc[r] = "done"
        /\ Len(req[r].indices) = 2 /\ Len(indices[r]) = 2
        /\ reply[r] = EmptyContent

\* C9: trace_get with exactly one index i, 0 <= i < 65535, for a
\* transaction that is found and traced, replies with the frame at
\* zero-based position i + 1 of the flat trace list when the list has more
\* than i + 1 frames, and with empty content otherwise.
C9_GetIndexPlusOne ==
    \A r \in Reqs :
        (req[r].method = "trace_get" /\ Len(req[r].indices) = 1
         /\ result[r].returned) =>
            LET i == stoi(req[r].indices[1]).val
            IN  (0 <= i /\ i < 65535) =>
                    reply[r] =
                        IF Len(result[r].traces) > i + 1
                        THEN make_json_content_one(result[r].traces[i + 2])
                        ELSE EmptyContent

\* C9 witness: index 1 selected the third frame of a list of three.
C9_Witness ==
    \E r \in Reqs :
        /\ req[r].method = "trace_get" /\ pc[r] = "done"
        /\ req[r].indices = << <<"0", "x", "1">> >>
        /\ Len(result[r].traces) = 3
        /\ reply[r] = make_json_content_one(result[r].traces[3])

\* the raw transaction of the request was decoded
Decoded(q) ==
    /\ q.method = "trace_rawTransaction" /\ q.nparams >= 2 /\ q.bad # 1
    /\ q.raw.hex /\ q.raw.rlp

\* max_fee_per_gas x gas_limit exceeds the cap of 1 ether
FeeExceedsCap(t) == t.max_fee_per_gas * t.gas_limit > 1 * Ether

\* C10: trace_rawTransaction rejects with error -32000, before a read
\* transaction is opened and without invoking the executor, every decoded
\* raw transaction whose fee exceeds 1 ether, that is not replay-protected
\* or whose sender cannot be recovered; a transaction reaches the executor
\* only if it passed the three checks.
C10_RawTransactionChecks ==
    \A r \in Reqs :
        /\ (Called(r) /\ Decoded(req[r])
            /\ (\/ FeeExceedsCap(req[r].raw)
                \/ ~req[r].raw.replay_protected
                \/ ~req[r].raw.recoverable)) =>
               /\ pc[r] = "done"
               /\ reply[r].kind = "error" /\ reply[r].code = -32000
               /\ tx[r] = 0 /\ execCalls[r] = 0
        /\ (req[r].method = "trace_rawTransaction" /\ execCalls[r] > 0) =>
               /\ ~FeeExceedsCap(req[r].raw)
               /\ req[r].raw.replay_protected
               /\ req[r].raw.recoverable

\* C10 witness: a replay-protected transaction within the cap whose sender
\* cannot be recovered was rejected.
C10_Witness ==
    \E r \in Reqs :
        /\ Called(r) /\ Decoded(req[r])
        /\ ~FeeExceedsCap(req[r].raw) /\ req[r].raw.max_fee_per_gas > 0
        /\ req[r].raw.gas_limit > 0
        /\ req[r].raw.replay_protected /\ ~req[r].raw.recoverable
        /\ reply[r] = make_json_error(-32000, "cannot recover sender")

Holding(r) == tx[r] # 0 /\ closes[r] = 0

\* C12: under any interleaving of handlers each handler closes only the read
\* transaction it opened; the open read transactions are exactly those of
\* the handlers between begin() and close(), and none is open once every
\* handler has returned
C12_OwnTransactions ==
    /\ open = {tx[r] : r \in {h \in Reqs : Holding(h)}}
    /\ \A r1, r2 \in Reqs : r1 # r2 /\ tx[r1] # 0 => tx[r1] # tx[r2]
    /\ (\A r \in Reqs : Returned(r)) => open = {}

\* two handlers hold their transactions at the same time, and one of them
\* has closed its own while the other still executes
C12_Witness ==
    \E r1, r2 \in Reqs :
        /\ r1 # r2
        /\ pc[r1] = "done" /\ closes[r1] = 1 /\ tx[r1] # 0
        /\ pc[r2] = "executing"
        /\ tx[r2] < tx[r1]
        /\ open = {tx[r2]}

----------------------------------------------------------------------------
(* AccessListTracer (silkrpc/core/evm_access_list_tracer.cpp)              *)

\* the length in bytes of an address and of a hash or storage key
kAddressLength == 20
kHashLength == 32

Words == 0..MaxWord

HexChars == <<"0", "1", "2", "3", "4", "5", "6", "7", "8", "9",
              "a", "b", "c", "d", "e", "f">>

\* intx::hex(x): the hexadecimal digits of x, most significant first, without
\* leading zeros
RECURSIVE intx_hex(_)
intx_hex(x) ==
    IF x < 16 THEN <<HexChars[x + 1]>>
    ELSE Append(intx_hex(x \div 16), HexChars[(x % 16) + 1])

\* evmc::hex(b): the two hexadecimal digits of a byte
evmc_hex(b) == HexChars[(b \div 16) + 1] \o HexChars[(b % 16) + 1]

RECURSIVE HexPairs(_)
HexPairs(s) ==
    IF s = <<>> THEN <<>>
    ELSE <<16 * HexVal(s[1]) + HexVal(s[2])>> \o HexPairs(Tail(Tail(s)))

\* silkworm::from_hex(s): the bytes a string of hexadecimal digits stands
\* for, a string of odd length read as if it began with one more 0; no value
\* when a character is not a hexadecimal digit
from_hex(s) ==
    IF \E i \in 1..Len(s) : s[i] \notin HexDigits
    THEN [ok |-> FALSE, val |-> <<>>]
    ELSE [ok |-> TRUE,
          val |-> HexPairs(IF Len(s) % 2 = 1 THEN <<"0">> \o s ELSE s)]

\* the first min(Len(bytes), size) bytes of bytes at the right end of size
\* bytes, zeros before them
RightAligned(bytes, size) ==
    LET n == IF Len(bytes) < size THEN Len(bytes) ELSE size
    IN  [i \in 1..size |-> IF i <= size - n THEN 0 ELSE bytes[i - (size - n)]]

\* silkworm::to_evmc_address(bytes)
to_evmc_address(bytes) == RightAligned(bytes, kAddressLength)

\* silkworm::to_bytes32(bytes)
to_bytes32(bytes) == RightAligned(bytes, kHashLength)

\* silkworm::bytes32_from_hex(s)
bytes32_from_hex(s) == to_bytes32(from_hex(s).val)

\* const auto bytes = silkworm::from_hex(s);
\* return silkworm::to_evmc_address(bytes.value_or(silkworm::Bytes{}));
address_from_hex_string(s) ==
    LET bytes == from_hex(s)
    IN  to_evmc_address(IF bytes.ok THEN bytes.val ELSE <<>>)

\* the address and the storage key a stack word denotes
AddressOf(w) == [i \in 1..kAddressLength |-> IF i = kAddressLength THEN w ELSE 0]
KeyOf(w) == [i \in 1..kHashLength |-> IF i = kHashLength THEN w ELSE 0]

Addresses == {AddressOf(w) : w \in Words}

\* the precompiled contracts among the addresses: ecrecover at address 1
Precompiled == {AddressOf(1)}

\* is_precompiled(address)
is_precompiled(address) == address \in Precompiled

\* the opcodes the callbacks are given: ADD, an undefined opcode (0x0c),
\* BALANCE, EXTCODESIZE, EXTCODECOPY, EXTCODEHASH, SLOAD, SSTORE, CALL,
\* CALLCODE, DELEGATECALL, STATICCALL, SELFDESTRUCT
Opcodes == {1, 12, 49, 59, 60, 63, 84, 85, 241, 242, 244, 250, 255}

\* evmc_get_instruction_names_table(rev): the name of each opcode, no name
\* for an opcode that is not defined
InstructionNames ==
    [op \in Opcodes |->
        CASE op = 1 -> <<"ADD">>
          [] op = 49 -> <<"BALANCE">>
          [] op = 59 -> <<"EXTCODESIZE">>
          [] op = 60 -> <<"EXTCODECOPY">>
          [] op = 63 -> <<"EXTCODEHASH">>
          [] op = 84 -> <<"SLOAD">>
          [] op = 85 -> <<"SSTORE">>
          [] op = 241 -> <<"CALL">>
          [] op = 242 -> <<"CALLCODE">>
          [] op = 244 -> <<"DELEGATECALL">>
          [] op = 250 -> <<"STATICCALL">>
          [] op = 255 -> <<"SELFDESTRUCT">>
          [] OTHER -> <<>>]

\* const auto name = names[opcode];
\* return (name != nullptr) ? name : "opcode 0x" + evmc::hex(opcode) + " not defined";
get_opcode_name(names, opcode) ==
    LET name == names[opcode]
    IN  IF name # <<>> THEN name[1]
        ELSE "opcode 0x" \o evmc_hex(opcode) \o " not defined"

is_storage_opcode(opcode_name) == opcode_name \in {"SLOAD", "SSTORE"}

is_contract_opcode(opcode_name) ==
    opcode_name \in {"EXTCODECOPY", "EXTCODEHASH", "EXTCODESIZE", "BALANCE",
                     "SELFDESTRUCT"}

\* mutant of is_call_opcode: CALLCODE is not taken for a call
is_call_opcode_NoCallcode(opcode_name) ==
    opcode_name \in {"DELEGATECALL", "CALL", "STATICCALL"}

is_call_opcode(opcode_name) ==
    opcode_name \in {"DELEGATECALL", "CALL", "STATICCALL", "CALLCODE"}

\* mutant of exclude: no address is excluded
exclude_Nothing(address) == FALSE

\* return (address == from_ || address == to_);
exclude(address) == address = from_ \/ address = to_

\* the position of the first entry of list whose account is address, 0 when
\* there is none
IndexOfAccount(list, address) ==
    LET found == {i \in 1..Len(list) : list[i].account = address}
    IN  IF found = {} THEN 0
        ELSE CHOOSE i \in found : \A j \in found : i <= j

\* mutant of add_storage: an account that has an entry gets no further key
add_storage_FirstKeyOnly(list, address, storage) ==
    IF IndexOfAccount(list, address) # 0 THEN list
    ELSE Append(list, [account |-> address, storage_keys |-> <<storage>>])

\* add_storage(address, storage): the list it leaves in access_list_
add_storage(list, address, storage) ==
    LET i == IndexOfAccount(list, address)
    IN  IF i # 0
        THEN IF \E j \in 1..Len(list[i].storage_keys) :
                     list[i].storage_keys[j] = storage
             THEN list
             ELSE [list EXCEPT ![i].storage_keys = Append(@, storage)]
        ELSE Append(list, [account |-> address, storage_keys |-> <<storage>>])

\* mutant of add_address: the entry is appended without looking for one
add_address_NoLookup(list, address) ==
    Append(list, [account |-> address, storage_keys |-> <<>>])

\* add_address(address): the list it leaves in access_list_
add_address(list, address) ==
    IF IndexOfAccount(list, address) # 0 THEN list
    ELSE Append(list, [account |-> address, storage_keys |-> <<>>])

\* stack_top[k] for k = 0, -1, ...: the stack is held top first
stack_top(stack, k) == stack[1 - k]

\* the heights of the stacks the callbacks are given
StackHeights == {0, 1, 4, 5}

\* a stack of height h whose top is the word a; the items below differ from
\* their neighbours
StackOf(h, a) == [i \in 1..h |-> (a + i - 1) % (MaxWord + 1)]

Stacks == {StackOf(h, a) : h \in StackHeights, a \in Words}

\* the recipients of the frames that execute code: the recipient of the
\* transaction and a contract it calls
Recipients == {to_, AddressOf(0)}

\* mutant of on_instruction_start: a call opcode is recorded from a stack of
\* height 4
on_instruction_start_CallAtFour(list, names, opcode, stack, recipient) ==
    LET opcode_name == get_opcode_name(names, opcode)
        stack_height == Len(stack)
    IN  IF is_storage_opcode(opcode_name) /\ stack_height >= 1
        THEN add_storage(list, recipient,
                         bytes32_from_hex(intx_hex(stack_top(stack, 0))))
        ELSE IF is_contract_opcode(opcode_name) /\ stack_height >= 1
        THEN LET address == address_from_hex_string(intx_hex(stack_top(stack, 0)))
             IN  IF ~exclude(address) THEN add_address(list, address) ELSE list
        ELSE IF is_call_opcode(opcode_name) /\ stack_height >= 4
        THEN LET address == address_from_hex_string(intx_hex(stack_top(stack, -1)))
             IN  IF ~exclude(address) THEN add_address(list, address) ELSE list
        ELSE list

\* on_instruction_start(pc, stack_top, stack_height, execution_state, ...):
\* the list it leaves in access_list_
on_instruction_start(list, names, opcode, stack, recipient) ==
    LET opcode_name == get_opcode_name(names, opcode)
        stack_height == Len(stack)
    IN  IF is_storage_opcode(opcode_name) /\ stack_height >= 1
        THEN add_storage(list, recipient,
                         bytes32_from_hex(intx_hex(stack_top(stack, 0))))
        ELSE IF is_contract_opcode(opcode_name) /\ stack_height >= 1
        THEN LET address == address_from_hex_string(intx_hex(stack_top(stack, 0)))
             IN  IF ~exclude(address) THEN add_address(list, address) ELSE list
        ELSE IF is_call_opcode(opcode_name) /\ stack_height >= 5
        THEN LET address == address_from_hex_string(intx_hex(stack_top(stack, -1)))
             IN  IF ~exclude(address) THEN add_address(list, address) ELSE list
        ELSE list

\* an AccessListTracer is constructed for a transaction from from_ to to_
TracerInit ==
    /\ from_ = AddressOf(MaxWord)
    /\ to_ \in Addresses \ Precompiled
    /\ opcode_names_ = <<>>
    /\ access_list_ = <<>>
    /\ last = NoCallback
    /\ prev = <<>>
    /\ steps = 0

InitTracer == HandlerInit /\ TracerInit /\ KvIdle /\ ChainIdle /\ EvmIdle
        /\ CompareIdle

\* on_execution_start(rev, msg, code)
OnExecutionStart ==
    /\ opcode_names_' = IF opcode_names_ = <<>> THEN <<InstructionNames>>
                        ELSE opcode_names_
    /\ UNCHANGED <<from_, to_, access_list_, last, prev, steps>>
    /\ UNCHANGED <<handlerVars, kvVars, chain, evm, compared>>

\* on_instruction_start(...), which the EVM calls for the instructions of an
\* execution it has announced by on_execution_start
OnInstructionStart ==
    /\ opcode_names_ # <<>>
    /\ steps < MaxSteps
    /\ \E opcode \in Opcodes, stack \in Stacks, recipient \in Recipients :
         /\ access_list_' = on_instruction_start(access_list_, opcode_names_[1],
                                                 opcode, stack, recipient)
         /\ last' = [opcode |-> opcode, stack |-> stack, recipient |-> recipient]
    /\ prev' = access_list_
    /\ steps' = steps + 1
    /\ UNCHANGED <<from_, to_, opcode_names_>>
    /\ UNCHANGED <<handlerVars, kvVars, chain, evm, compared>>

NextTracer == OnExecutionStart \/ OnInstructionStart

SpecTracer == InitTracer /\ [][NextTracer]_vars

----------------------------------------------------------------------------
(* Properties of the AccessListTracer *)

\* the opcodes by their numbers: SLOAD, SSTORE; BALANCE, EXTCODESIZE,
\* EXTCODECOPY, EXTCODEHASH, SELFDESTRUCT; CALL, CALLCODE, DELEGATECALL,
\* STATICCALL
StorageOpcodes == {84, 85}
ContractOpcodes == {49, 59, 60, 63, 255}
CallOpcodes == {241, 242, 244, 250}

\* the accounts that have an entry in an access list
Accounts(list) == {list[i].account : i \in 1..Len(list)}

\* the storage keys of an entry
Keys(entry) == {entry.storage_keys[j] : j \in 1..Len(entry.storage_keys)}

\* the latest callback was an SLOAD or SSTORE on a stack of height >= 1
LastIsStorage == last.opcode \in StorageOpcodes /\ Len(last.stack) >= 1

\* the address operand of the latest callback, if it was an address-touching
\* opcode on a stack high enough: stack_top[0], for the calls stack_top[-1]
Operand ==
    IF last.opcode \in ContractOpcodes /\ Len(last.stack) >= 1
    THEN <<AddressOf(last.stack[1])>>
    ELSE IF last.opcode \in CallOpcodes /\ Len(last.stack) >= 5
    THEN <<AddressOf(last.stack[2])>>
    ELSE <<>>

\* C13 as stated: after any sequence of callbacks the access list has no
\* entry whose account is the from or the to address of the transaction,
\* whichever opcode caused the entry
C13_NoFromToEntries ==
    \A i \in 1..Len(access_list_) : access_list_[i].account \notin {from_, to_}

\* C13: contract-inspection and call opcodes never add an entry for the from
\* or the to address; an entry for one of them comes from an SLOAD or SSTORE
\* of a frame whose recipient it is, and so has at least one storage key
C13_FromToOnlyByStorage ==
    /\ \A i \in 1..Len(access_list_) :
           access_list_[i].account \in {from_, to_}
               => access_list_[i].storage_keys # <<>>
    /\ ~LastIsStorage =>
           \A a \in {from_, to_} :
               a \in Accounts(access_list_) => a \in Accounts(prev)

\* the to address has an entry with a storage key, and a contract-inspection
\* opcode on the from address has then added nothing
C13_Witness ==
    /\ last.opcode \in ContractOpcodes
    /\ Operand = <<from_>>
    /\ access_list_ = prev
    /\ \E i \in 1..Len(access_list_) :
          /\ access_list_[i].account = to_
          /\ access_list_[i].storage_keys # <<>>

\* C14: the access list never holds a precompiled-contract address: an
\* address-touching opcode whose operand is a precompiled contract adds no
\* entry
C14_NoPrecompiledEntries ==
    \A i \in 1..Len(access_list_) : ~is_precompiled(access_list_[i].account)

\* C15: after any sequence of on_instruction_start callbacks no two entries
\* of the access list have the same account and no entry lists a storage key
\* twice
C15_NoDuplicates ==
    /\ \A i, j \in 1..Len(access_list_) :
           i # j => access_list_[i].account # access_list_[j].account
    /\ \A i \in 1..Len(access_list_) :
           \A j, k \in 1..Len(access_list_[i].storage_keys) :
               j # k => access_list_[i].storage_keys[j]
                            # access_list_[i].storage_keys[k]

\* the second callback met an account and a key that were recorded already
C15_Witness ==
    /\ steps = 2
    /\ LastIsStorage
    /\ Len(prev) = 1
    /\ access_list_ = prev

\* C16: after on_instruction_start for SLOAD or SSTORE with stack height >= 1
\* the access list has an entry for the recipient of the frame whose keys
\* include stack_top[0] as a 32-byte key; the entry is created if there was
\* none, the key is appended if the entry lacked it
C16_StorageRecorded ==
    LastIsStorage =>
        LET key == KeyOf(last.stack[1])
            r == last.recipient
            before == {i \in 1..Len(prev) : prev[i].account = r}
        IN  /\ \E i \in 1..Len(access_list_) :
                  /\ access_list_[i].account = r
                  /\ key \in Keys(access_list_[i])
            /\ before = {} =>
                  access_list_ =
                      Append(prev, [account |-> r, storage_keys |-> <<key>>])
            /\ \A i \in before :
                  access_list_ =
                      IF key \in Keys(prev[i]) THEN prev
                      ELSE [prev EXCEPT ![i].storage_keys = Append(@, key)]

\* an SLOAD or SSTORE has appended a second key to the entry of its recipient
C16_Witness ==
    /\ LastIsStorage
    /\ \E i \in 1..Len(prev) :
          /\ prev[i].account = last.recipient
          /\ Len(prev[i].storage_keys) = 1
          /\ access_list_[i].storage_keys
                 = Append(prev[i].storage_keys, KeyOf(last.stack[1]))

\* C17: after on_instruction_start for an address-touching opcode on a stack
\* high enough, the address operand (stack_top[0]; for the calls stack_top[-1])
\* is an entry of the access list unless it is excluded, added with no
\* storage key when it was not present before
C17_AddressRecorded ==
    (/\ Operand # <<>>
     /\ Operand[1] \notin {from_, to_}
     /\ ~is_precompiled(Operand[1]))
        => /\ Operand[1] \in Accounts(access_list_)
           /\ access_list_ =
                  IF Operand[1] \in Accounts(prev) THEN prev
                  ELSE Append(prev, [account |-> Operand[1],
                                     storage_keys |-> <<>>])

\* a call opcode on a stack of height 5 has added the second stack item,
\* which was not present before, behind an entry recorded earlier
C17_Witness ==
    /\ last.opcode \in CallOpcodes
    /\ Operand # <<>>
    /\ prev # <<>>
    /\ Operand[1] \notin Accounts(prev)
    /\ access_list_ = Append(prev, [account |-> Operand[1],
                                    storage_keys |-> <<>>])

----------------------------------------------------------------------------
(* kv_seek (cmd/kv_seek.cpp): one cursor seek over the KV Tx stream        *)

\* the values of the flags --table, --seekkey and --target
Tables == {"", "Headers", "PlainState"}
SeekKeys == {<<>>, <<"0", "0">>, <<"f", "f">>}
Targets == {<<>>, <<"h">>, <<"h", ":", "9">>}

\* target.find(":") == std::string::npos
NoColon(target) == \A i \in 1..Len(target) : target[i] # ":"

\* the flags main returns -1 for before it opens the stream
InvalidFlags(table_name, seek_key, target) ==
    \/ table_name = ""
    \/ seek_key = <<>>
    \/ target = <<>> \/ NoColon(target)

\* remote::Cursor: the request messages
open_message(table_name) ==
    [op |-> "OPEN", bucketname |-> table_name, cursor |-> 0, k |-> <<>>]

\* mutant of seek_message: the cursor id is not set
seek_message_NoCursor(cursor_id, seek_key_bytes) ==
    [op |-> "SEEK", bucketname |-> "", cursor |-> 0, k |-> seek_key_bytes]

seek_message(cursor_id, seek_key_bytes) ==
    [op |-> "SEEK", bucketname |-> "", cursor |-> cursor_id,
     k |-> seek_key_bytes]

close_message(cursor_id) ==
    [op |-> "CLOSE", bucketname |-> "", cursor |-> cursor_id, k |-> <<>>]

\* remote::Pair: the responses the server can send
Pairs == [cursorid : 0..MaxCursor, k : {<<>>, <<255>>}]

\* the message main sends at each of its Write calls
MessageAt(s) ==
    CASE s.pc = "write_open" -> open_message(s.table)
      [] s.pc = "write_seek" -> seek_message(s.cursor_id, from_hex(s.seekkey).val)
      [] s.pc = "write_close" -> close_message(s.cursor_id)

\* the statement that follows a Write or a Read that succeeded
AfterCall(at) ==
    CASE at = "write_open" -> "read_open"
      [] at = "read_open" -> "write_seek"
      [] at = "write_seek" -> "read_seek"
      [] at = "read_seek" -> "write_close"
      [] at = "write_close" -> "read_close"
      [] at = "read_close" -> "exited"

InitKv == HandlerInit /\ TracerIdle /\ KvIdle /\ ChainIdle /\ EvmIdle
        /\ CompareIdle

\* main up to reader_writer = stub->Tx(&context)
KvStart ==
    /\ kv.pc = "not_started"
    /\ \E table_name \in Tables, seek_key \in SeekKeys, target \in Targets :
         kv' = [kv EXCEPT !.table = table_name, !.seekkey = seek_key,
                          !.target = target,
                          !.pc = IF InvalidFlags(table_name, seek_key, target)
                                 THEN "exited" ELSE "write_open",
                          !.exit = IF InvalidFlags(table_name, seek_key, target)
                                   THEN -1 ELSE 0]
    /\ UNCHANGED stream
    /\ UNCHANGED <<handlerVars, tracerVars, chain, evm, compared>>

\* success = reader_writer->Write(message); if (!success) return -1;
KvWrite ==
    /\ kv.pc \in {"write_open", "write_seek", "write_close"}
    /\ \E success \in BOOLEAN :
         /\ stream' = Append(stream, [call |-> "Write", ok |-> success,
                                      msg |-> MessageAt(kv)])
         /\ kv' = IF success THEN [kv EXCEPT !.pc = AfterCall(kv.pc)]
                  ELSE [kv EXCEPT !.pc = "exited", !.exit = -1]
    /\ UNCHANGED <<handlerVars, tracerVars, chain, evm, compared>>

\* success = reader_writer->Read(&pair); if (!success) return -1;
\* after the OPEN response: auto cursor_id = open_pair.cursorid();
\* after the CLOSE response: return 0;
KvRead ==
    /\ kv.pc \in {"read_open", "read_seek", "read_close"}
    /\ \/ \E pair \in Pairs :
            /\ stream' = Append(stream, [call |-> "Read", ok |-> TRUE,
                                         msg |-> pair])
            /\ kv' = [kv EXCEPT !.pc = AfterCall(kv.pc),
                                !.cursor_id = IF kv.pc = "read_open"
                                              THEN pair.cursorid ELSE @]
       \/ /\ stream' = Append(stream, [call |-> "Read", ok |-> FALSE,
                                        msg |-> [cursorid |-> 0, k |-> <<>>]])
          /\ kv' = [kv EXCEPT !.pc = "exited", !.exit = -1]
    /\ UNCHANGED <<handlerVars, tracerVars, chain, evm, compared>>

NextKv == KvStart \/ KvWrite \/ KvRead

SpecKv == InitKv /\ [][NextKv]_vars

----------------------------------------------------------------------------
(* Properties of kv_seek *)

\* the operations of the requests written on the stream, in order
RECURSIVE WrittenOps(_)
WrittenOps(calls) ==
    IF calls = <<>> THEN <<>>
    ELSE IF Head(calls).call = "Write"
         THEN <<Head(calls).msg.op>> \o WrittenOps(Tail(calls))
         ELSE <<"Read">> \o WrittenOps(Tail(calls))

\* main has returned 0
KvSucceeded == kv.pc = "exited" /\ kv.exit = 0 /\ stream # <<>>

\* C18: on the Tx stream kv_seek never writes a request before the response
\* to its previous request has been read; on success the calls are exactly
\* Write(OPEN), Read, Write(SEEK), Read, Write(CLOSE), Read, and SEEK and
\* CLOSE carry the cursor id of the OPEN response
C18_RequestsPaired ==
    /\ \A i \in 1..Len(stream) :
           stream[i].call = "Write" /\ i > 1
               => stream[i - 1].call = "Read" /\ stream[i - 1].ok
    /\ \A i \in 1..Len(stream) :
           stream[i].call = "Read"
               => i > 1 /\ stream[i - 1].call = "Write" /\ stream[i - 1].ok
    /\ KvSucceeded =>
           /\ WrittenOps(stream)
                  = <<"OPEN", "Read", "SEEK", "Read", "CLOSE", "Read">>
           /\ \A i \in 1..Len(stream) : stream[i].ok
           /\ stream[3].msg.cursor = stream[2].msg.cursorid
           /\ stream[5].msg.cursor = stream[2].msg.cursorid

\* kv_seek has run to its end with a cursor id other than the default
C18_Witness ==
    /\ KvSucceeded
    /\ Len(stream) = 6
    /\ stream[2].msg.cursorid = MaxCursor
    /\ stream[3].msg.cursor = MaxCursor

----------------------------------------------------------------------------
(* Chain accessors (silkrpc/core/rawdb/chain.cpp, as its tests show them)  *)

\* a stored value of n bytes, each byte telling its position
ValueOf(n) == [i \in 1..n |-> i]

\* the values get_one(kCanonicalHashes, key) returns
HashValues == {ValueOf(n) : n \in 0..(kHashLength + MaxExcess)}

\* mutant of read_canonical_block_hash: a value that is not 32 bytes long is
\* rejected
read_canonical_block_hash_Strict(value) ==
    IF Len(value) # kHashLength
    THEN [outcome |-> "invalid_argument", hash |-> <<>>]
    ELSE [outcome |-> "returned", hash |-> to_bytes32(value)]

\* read_canonical_block_hash(reader, block_number) on the value stored for
\* the block number: an empty value throws std::invalid_argument, any other
\* value becomes a hash
read_canonical_block_hash(value) ==
    IF value = <<>>
    THEN [outcome |-> "invalid_argument", hash |-> <<>>]
    ELSE [outcome |-> "returned", hash |-> to_bytes32(value)]

\* the values get_one(kSenders, key) returns: up to one address more than a
\* body has transactions, whole or cut short or with a byte in excess
SenderValues ==
    {ValueOf(n) : n \in 0..((MaxTransactions + 1) * kAddressLength + 1)}

\* mutant of read_senders: no address after the first is returned
read_senders_FirstOnly(data) ==
    [i \in 1..(IF Len(data) < kAddressLength THEN 0 ELSE 1) |->
        to_evmc_address(SubSeq(data, 1, kAddressLength))]

\* read_senders(reader, block_hash, block_number): the addresses the value
\* is made of
read_senders(data) ==
    [i \in 1..(Len(data) \div kAddressLength) |->
        to_evmc_address(SubSeq(data, (i - 1) * kAddressLength + 1,
                               i * kAddressLength))]

\* read_body: the from fields of the ntx transactions of the body, given the
\* senders value of the block
attach_senders(ntx, data) ==
    LET senders == read_senders(data)
    IN  IF Len(data) % kAddressLength = 0 /\ Len(senders) = ntx
        THEN [i \in 1..ntx |-> <<senders[i]>>]
        ELSE [i \in 1..ntx |-> <<>>]

\* the entries the transaction tables hold in the model: an RLP list of one
\* byte, or a value that begins with 00 where the list header must be
TxEntries == {<<193, 1>>, <<193, 2>>, <<0, 1>>}

TxTables == SeqsUpTo(TxEntries, MaxTransactions)

rlp_decode_Lenient(value) ==
    [ok |-> TRUE, txn |-> SubSeq(value, 2, Len(value))]

\* silkworm::rlp::decode(value, tx): the value is a list header followed by
\* as many payload bytes as the header announces
rlp_decode(value) ==
    IF Len(value) >= 1 /\ value[1] = 192 + (Len(value) - 1)
    THEN [ok |-> TRUE, txn |-> SubSeq(value, 2, Len(value))]
    ELSE [ok |-> FALSE, txn |-> <<>>]

\* what the walker leaves of the transactions decoded so far when an entry
\* does not decode
on_decode_failure(txns) == <<>>

RECURSIVE walk_transactions(_, _, _, _)
\* db_reader.walk(table, key, 0, walker): the walker decodes one entry per
\* call and stops at the entry that does not decode or after count entries
walk_transactions(entries, count, i, txns) ==
    IF i > Len(entries) \/ i > count THEN [txns |-> txns, calls |-> i - 1]
    ELSE LET res == rlp_decode(entries[i])
         IN  IF res.ok
             THEN walk_transactions(entries, count, i + 1,
                                    Append(txns, res.txn))
             ELSE [txns |-> on_decode_failure(txns), calls |-> i]

\* read_canonical_transactions(reader, base_txn_id, txn_count)
read_canonical_transactions(entries, txn_count) ==
    IF txn_count = 0 THEN [txns |-> <<>>, calls |-> 0]
    ELSE walk_transactions(entries, txn_count, 1, <<>>)

\* read_noncanonical_transactions(reader, base_txn_id, txn_count)
read_noncanonical_transactions(entries, txn_count) ==
    IF txn_count = 0 THEN [txns |-> <<>>, calls |-> 0]
    ELSE walk_transactions(entries, txn_count, 1, <<>>)

\* the values kBlockReceipts holds in the model: nothing, or a CBOR array
\* header followed by one byte of cumulative gas per receipt
ReceiptValues ==
    {<<>>} \cup {<<128 + Len(q)>> \o q : q \in SeqsUpTo({1, 2}, MaxTransactions)}

\* read_raw_receipts(reader, block_hash, block_number): no receipt for the
\* empty value, otherwise the receipts of the CBOR array
read_raw_receipts(data) ==
    IF Len(data) = 0 THEN <<>>
    ELSE [i \in 1..(data[1] - 128) |-> [cumulative_gas_used |-> data[i + 1]]]

kReceiptsMismatch == "#transactions and #receipts do not match in read_receipts"

read_receipts_EmptyFirst(ntx, data) ==
    LET receipts == read_raw_receipts(data)
    IN  IF Len(receipts) # ntx /\ Len(receipts) # 0
        THEN [outcome |-> "runtime_error", what |-> kReceiptsMismatch,
              receipts |-> <<>>]
        ELSE [outcome |-> "returned", what |-> "",
              receipts |-> [i \in 1..Len(receipts) |->
                               [cumulative_gas_used |->
                                    receipts[i].cumulative_gas_used,
                                tx_index |-> i - 1]]]

\* read_receipts(reader, block_with_hash) for a block of ntx transactions
read_receipts(ntx, data) ==
    LET receipts == read_raw_receipts(data)
    IN  IF Len(receipts) # ntx
        THEN [outcome |-> "runtime_error", what |-> kReceiptsMismatch,
              receipts |-> <<>>]
        ELSE [outcome |-> "returned", what |-> "",
              receipts |-> [i \in 1..Len(receipts) |->
                               [cumulative_gas_used |->
                                    receipts[i].cumulative_gas_used,
                                tx_index |-> i - 1]]]

\* a uint64_t is held as its 8 bytes, least significant first
kUint64Length == 8

\* the uint64_t of a number below 2^24
U64(n) ==
    [i \in 1..kUint64Length |->
        IF i = 1 THEN n % 256
        ELSE IF i = 2 THEN (n \div 256) % 256
        ELSE IF i = 3 THEN (n \div 65536) % 256
        ELSE 0]

kMaxUint64 == [i \in 1..kUint64Length |-> 255]

Incarnations == {U64(0), U64(37), U64(258), kMaxUint64}

store_big_u64_NoSwap(value) == value

\* boost::endian::store_big_u64(out, value): the bytes of value, most
\* significant first
store_big_u64(value) ==
    [i \in 1..kUint64Length |-> value[kUint64Length + 1 - i]]

\* composite_storage_key(address, incarnation, hash)
composite_storage_key(address, incarnation, hash) ==
    address \o store_big_u64(incarnation) \o hash

\* the values get_one(kTxLookup, hash) returns: up to MaxValueLen bytes, a
\* first byte and the bytes after it; a value longer than a uint64_t does
\* not begin with a zero byte
BlockNumberValues ==
    {<<61, 9, 0>>, <<0, 61, 9, 0>>} \cup
    {v \in {[i \in 1..n |-> IF i = 1 THEN lead ELSE rest] :
                n \in 0..MaxValueLen, lead \in {0, 1, 255}, rest \in {0, 255}} :
        Len(v) > kUint64Length => v[1] # 0}

RECURSIVE to_uint64_Wrapping(_, _, _)
to_uint64_Wrapping(value, i, acc) ==
    IF i > Len(value) THEN [ok |-> TRUE, number |-> acc]
    ELSE to_uint64_Wrapping(value, i + 1,
             <<value[i]>> \o SubSeq(acc, 1, kUint64Length - 1))

RECURSIVE to_uint64(_, _, _)
\* the number a big-endian value stands for, byte after byte from the most
\* significant one; no uint64_t holds a number that has got a ninth byte
to_uint64(value, i, acc) ==
    IF i > Len(value) THEN [ok |-> TRUE, number |-> acc]
    ELSE IF acc[kUint64Length] # 0 THEN [ok |-> FALSE, number |-> U64(0)]
    ELSE to_uint64(value, i + 1,
             <<value[i]>> \o SubSeq(acc, 1, kUint64Length - 1))

\* read_block_number_by_transaction_hash(reader, transaction_hash), given
\* the value of kTxLookup
read_block_number_by_transaction_hash(value) ==
    IF Len(value) = 0
    THEN [outcome |-> "invalid_argument", number |-> U64(0)]
    ELSE LET res == to_uint64(value, 1, U64(0))
         IN  IF res.ok THEN [outcome |-> "returned", number |-> res.number]
             ELSE [outcome |-> "out_of_range", number |-> U64(0)]

InitChain == HandlerInit /\ TracerIdle /\ KvIdle /\ ChainIdle /\ EvmIdle
        /\ CompareIdle

\* co_await read_canonical_block_hash(reader, block_number)
ReadCanonicalBlockHash ==
    /\ \E value \in HashValues :
         LET res == read_canonical_block_hash(value)
         IN  chain' = [op |-> "read_canonical_block_hash", value |-> value,
                       ntx |-> 0, outcome |-> res.outcome, hash |-> res.hash,
                       from |-> <<>>]
    /\ UNCHANGED <<handlerVars, tracerVars, kvVars, evm, compared>>

\* co_await read_body(reader, block_hash, block_number) for a body that is
\* stored and decodes to ntx transactions
ReadBody ==
    /\ \E ntx \in 0..MaxTransactions, data \in SenderValues :
         chain' = [op |-> "read_body", value |-> data, ntx |-> ntx,
                   outcome |-> "returned", hash |-> <<>>,
                   from |-> attach_senders(ntx, data)]
    /\ UNCHANGED <<handlerVars, tracerVars, kvVars, evm, compared>>

\* co_await read_canonical_transactions(reader, base_txn_id, txn_count) over
\* the entries of kEthTx from base_txn_id on
ReadCanonicalTransactions ==
    /\ \E entries \in TxTables, txn_count \in 0..MaxTransactions :
         LET res == read_canonical_transactions(entries, txn_count)
         IN  chain' = [op |-> "read_canonical_transactions",
                       entries |-> entries, count |-> txn_count,
                       calls |-> res.calls, txns |-> res.txns]
    /\ UNCHANGED <<handlerVars, tracerVars, kvVars, evm, compared>>

\* co_await read_noncanonical_transactions(reader, base_txn_id, txn_count)
\* over the entries of kNonCanonicalTx from base_txn_id on
ReadNoncanonicalTransactions ==
    /\ \E entries \in TxTables, txn_count \in 0..MaxTransactions :
         LET res == read_noncanonical_transactions(entries, txn_count)
         IN  chain' = [op |-> "read_noncanonical_transactions",
                       entries |-> entries, count |-> txn_count,
                       calls |-> res.calls, txns |-> res.txns]
    /\ UNCHANGED <<handlerVars, tracerVars, kvVars, evm, compared>>

\* co_await read_receipts(reader, block_with_hash) for a block of ntx
\* transactions whose kBlockReceipts value is data
ReadReceipts ==
    /\ \E ntx \in 0..MaxTransactions, data \in ReceiptValues :
         LET res == read_receipts(ntx, data)
         IN  chain' = [op |-> "read_receipts", value |-> data, ntx |-> ntx,
                       outcome |-> res.outcome, what |-> res.what,
                       receipts |-> res.receipts]
    /\ UNCHANGED <<handlerVars, tracerVars, kvVars, evm, compared>>

\* composite_storage_key(address, incarnation, hash.bytes)
CompositeStorageKey ==
    /\ \E w \in Words, incarnation \in Incarnations, k \in Words :
         chain' = [op |-> "composite_storage_key", address |-> AddressOf(w),
                   incarnation |-> incarnation, hash |-> KeyOf(k),
                   key |-> composite_storage_key(AddressOf(w), incarnation,
                                                 KeyOf(k))]
    /\ UNCHANGED <<handlerVars, tracerVars, kvVars, evm, compared>>

\* co_await read_block_number_by_transaction_hash(reader, transaction_hash)
ReadBlockNumberByTransactionHash ==
    /\ \E value \in BlockNumberValues :
         LET res == read_block_number_by_transaction_hash(value)
         IN  chain' = [op |-> "read_block_number_by_transaction_hash",
                       value |-> value, outcome |-> res.outcome,
                       number |-> res.number]
    /\ UNCHANGED <<handlerVars, tracerVars, kvVars, evm, compared>>

NextChain ==
    \/ ReadCanonicalBlockHash
    \/ ReadBody
    \/ ReadCanonicalTransactions
    \/ ReadNoncanonicalTransactions
    \/ ReadReceipts
    \/ CompositeStorageKey
    \/ ReadBlockNumberByTransactionHash

SpecChain == InitChain /\ [][NextChain]_vars

----------------------------------------------------------------------------
(* Properties of the chain accessors *)

\* C19 as stated: read_canonical_block_hash fails on every stored value whose
\* length is not 32 bytes; a shorter value is never zero-padded into a hash
\* and a longer one never truncated into one
C19_RejectsOtherLengths ==
    chain.op = "read_canonical_block_hash" /\ Len(chain.value) # kHashLength
        => chain.outcome # "returned"

\* C19: read_canonical_block_hash fails on the empty value only; a shorter
\* value is returned with zero bytes before it, a longer value is returned
\* cut to its first 32 bytes, a value of 32 bytes is returned as it is
C19_RejectsEmptyOnly ==
    chain.op = "read_canonical_block_hash" =>
        LET n == Len(chain.value)
        IN  IF n = 0 THEN chain.outcome = "invalid_argument"
            ELSE /\ chain.outcome = "returned"
                 /\ Len(chain.hash) = kHashLength
                 /\ \A i \in 1..kHashLength :
                        chain.hash[i] =
                            IF n >= kHashLength THEN chain.value[i]
                            ELSE IF i <= kHashLength - n THEN 0
                            ELSE chain.value[i - (kHashLength - n)]

\* a value of 31 bytes has been returned as a hash that begins with a zero
C19_Witness ==
    /\ chain.op = "read_canonical_block_hash"
    /\ Len(chain.value) = kHashLength - 1
    /\ chain.outcome = "returned"
    /\ chain.hash[1] = 0
    /\ chain.hash[2] = chain.value[1]

TransactionReads ==
    {"read_canonical_transactions", "read_noncanonical_transactions"}

\* the entries a read of count entries is handed by the walk
Walked(entries, count) ==
    SubSeq(entries, 1, IF count < Len(entries) THEN count ELSE Len(entries))

MalformedEntry(value) == value[1] < 192

RawReceiptCount(data) == IF data = <<>> THEN 0 ELSE Len(data) - 1

\* C22: read_receipts fails with '#transactions and #receipts do not match
\* in read_receipts' whenever the number of raw receipts read for the block
\* differs from the number of transactions of the block, and when it
\* succeeds it returns one receipt per transaction of the block
C22_ReceiptsMatchTransactions ==
    chain.op = "read_receipts" =>
        /\ RawReceiptCount(chain.value) # chain.ntx =>
               /\ chain.outcome = "runtime_error"
               /\ chain.what =
                      "#transactions and #receipts do not match in read_receipts"
        /\ chain.outcome = "returned" =>
               /\ Len(chain.receipts) = chain.ntx
               /\ \A i \in 1..chain.ntx : chain.receipts[i].tx_index = i - 1

\* a block of one transaction whose receipts value is empty has been refused
C22_Witness ==
    /\ chain.op = "read_receipts"
    /\ chain.ntx = 1
    /\ chain.value = <<>>
    /\ chain.outcome = "runtime_error"

\* C29: composite_storage_key(address, incarnation, slot) returns 60 bytes:
\* the 20 address bytes, then the incarnation as 8 bytes big-endian for
\* every 64-bit value (0, 37 and 2^64-1 among them), then the 32 slot bytes,
\* each part unchanged and in that order
C29_CompositeKeyLayout ==
    chain.op = "composite_storage_key" =>
        /\ Len(chain.key) = 60
        /\ SubSeq(chain.key, 1, 20) = chain.address
        /\ \A i \in 1..8 : chain.key[20 + i] = chain.incarnation[9 - i]
        /\ SubSeq(chain.key, 29, 60) = chain.hash
        /\ chain.incarnation = U64(37) =>
               SubSeq(chain.key, 21, 28) = <<0, 0, 0, 0, 0, 0, 0, 37>>

\* the key of a non-zero address, incarnation 258 and a non-zero slot has 1
\* and 2 as the last two bytes of its incarnation part
C29_Witness ==
    /\ chain.op = "composite_storage_key"
    /\ chain.address[20] # 0
    /\ chain.hash[32] # 0
    /\ chain.incarnation = U64(258)
    /\ SubSeq(chain.key, 21, 28) = <<0, 0, 0, 0, 0, 0, 1, 2>>

\* C30: read_block_number_by_transaction_hash decodes the stored value as a
\* big-endian unsigned integer of any length (3D0900 gives 4,000,000); the
\* empty value fails with invalid_argument and a value wider than 64 bits
\* fails with out_of_range, it is not cut or wrapped
C30_BigEndianBlockNumber ==
    chain.op = "read_block_number_by_transaction_hash" =>
        LET n == Len(chain.value)
        IN  /\ n = 0 => chain.outcome = "invalid_argument"
            /\ n > 8 => chain.outcome = "out_of_range"
            /\ n \in 1..8 =>
                   /\ chain.outcome = "returned"
                   /\ \A i \in 1..8 :
                          chain.number[i] =
                              IF i <= n THEN chain.value[n + 1 - i] ELSE 0
            /\ chain.value = <<61, 9, 0>> => chain.number = U64(4000000)

\* a value of nine bytes has been refused
C30_Witness ==
    /\ chain.op = "read_block_number_by_transaction_hash"
    /\ Len(chain.value) = 9
    /\ chain.value[1] = 1
    /\ chain.outcome = "out_of_range"

----------------------------------------------------------------------------
(* EVMExecutor::call: the checks made before a transaction is executed *)

Digits == <<"0", "1", "2", "3", "4", "5", "6", "7", "8", "9">>

RECURSIVE to_string_Hex(_)
to_string_Hex(n) ==
    IF n < 16 THEN HexChars[n + 1]
    ELSE to_string_Hex(n \div 16) \o HexChars[(n % 16) + 1]

RECURSIVE to_string(_)
\* intx::to_string(value) and std::to_string(value): the decimal digits
to_string(n) ==
    IF n < 10 THEN Digits[n + 1]
    ELSE to_string(n \div 10) \o Digits[(n % 10) + 1]

\* the sender of the transactions, as silkworm::to_hex prints it
kFrom == "a872626373628737383927236382161739290870"

\* the error_code of a result whose pre_check_error is set
kPreCheckErrorCode == 1000

\* silkworm::intrinsic_gas(txn, homestead, istanbul) of a contract creation
\* with empty data
kIntrinsicGas == 53000

\* the blocks: one before London, which carries no base fee, and London
\* blocks with base fee 0, 1 and 7
Blocks ==
    {[london |-> FALSE, base_fee_per_gas |-> 0]} \cup
    {[london |-> TRUE, base_fee_per_gas |-> b] : b \in {0, 1, 7}}

\* the transactions: contract creations with empty data and value 0
Txns ==
    [gas_limit : {0, kIntrinsicGas - 1, kIntrinsicGas, 60000},
     max_fee_per_gas : {0, 2, 24},
     max_priority_fee_per_gas : {0, 2, 24},
     value : {0}]

Balances == {0, 59999, 60000}

NoError == <<>>

pre_check_IntrinsicFirst(block, txn) ==
    IF txn.gas_limit < kIntrinsicGas
    THEN <<"intrinsic gas too low: have " \o to_string(txn.gas_limit)
           \o ", want " \o to_string(kIntrinsicGas)>>
    ELSE IF block.london /\ txn.max_fee_per_gas < block.base_fee_per_gas
    THEN <<"fee cap less than block base fee: address 0x" \o kFrom
           \o ", gasFeeCap: " \o to_string(txn.max_fee_per_gas)
           \o " baseFee: " \o to_string(block.base_fee_per_gas)>>
    ELSE IF block.london /\ txn.max_fee_per_gas < txn.max_priority_fee_per_gas
    THEN <<"tip higher than fee cap: address 0x" \o kFrom
           \o ", tip: " \o to_string(txn.max_priority_fee_per_gas)
           \o " gasFeeCap: " \o to_string(txn.max_fee_per_gas)>>
    ELSE NoError

\* EVMExecutor::pre_check(evm, txn, base_fee_per_gas, g0): the fee fields
\* against the base fee of a London block, then the gas limit against the
\* intrinsic gas
pre_check(block, txn) ==
    IF block.london /\ txn.max_fee_per_gas < block.base_fee_per_gas
    THEN <<"fee cap less than block base fee: address 0x" \o kFrom
           \o ", gasFeeCap: " \o to_string(txn.max_fee_per_gas)
           \o " baseFee: " \o to_string(block.base_fee_per_gas)>>
    ELSE IF block.london /\ txn.max_fee_per_gas < txn.max_priority_fee_per_gas
    THEN <<"tip higher than fee cap: address 0x" \o kFrom
           \o ", tip: " \o to_string(txn.max_priority_fee_per_gas)
           \o " gasFeeCap: " \o to_string(txn.max_fee_per_gas)>>
    ELSE IF txn.gas_limit < kIntrinsicGas
    THEN <<"intrinsic gas too low: have " \o to_string(txn.gas_limit)
           \o ", want " \o to_string(kIntrinsicGas)>>
    ELSE NoError

\* txn.effective_gas_price(base_fee_per_gas)
effective_gas_price(txn, base_fee_per_gas) ==
    IF txn.max_priority_fee_per_gas + base_fee_per_gas < txn.max_fee_per_gas
    THEN txn.max_priority_fee_per_gas + base_fee_per_gas
    ELSE txn.max_fee_per_gas

\* the gas the sender pays for and the value the transaction moves
want(block, txn) ==
    txn.gas_limit * effective_gas_price(txn, block.base_fee_per_gas)
        + txn.value

check_balance_NoBailout(block, txn, have, gasBailout) ==
    IF have < want(block, txn)
    THEN <<"insufficient funds for gas * price + value: address 0x" \o kFrom
           \o " have " \o to_string(have)
           \o " want " \o to_string(want(block, txn))>>
    ELSE NoError

\* the balance of the sender against the cost of the transaction, unless
\* gasBailout is set
check_balance(block, txn, have, gasBailout) ==
    IF have < want(block, txn) /\ ~gasBailout
    THEN <<"insufficient funds for gas * price + value: address 0x" \o kFrom
           \o " have " \o to_string(have)
           \o " want " \o to_string(want(block, txn))>>
    ELSE NoError

\* evmc_status_code::EVMC_SUCCESS, the status a contract creation with
\* empty data ends with
EVMC_SUCCESS == 0

call_EveryError(block, txn, have, gasBailout) ==
    LET error == pre_check(block, txn)
        funds == check_balance(block, txn, have, gasBailout)
    IN  IF error # NoError \/ funds # NoError
        THEN [error_code |-> kPreCheckErrorCode,
              pre_check_error |-> error \o funds, executed |-> FALSE]
        ELSE [error_code |-> EVMC_SUCCESS, pre_check_error |-> NoError,
              executed |-> TRUE]

\* EVMExecutor::call(block, txn, tracers, refund, gasBailout)
call(block, txn, have, gasBailout) ==
    LET error == pre_check(block, txn)
        funds == check_balance(block, txn, have, gasBailout)
    IN  IF error # NoError
        THEN [error_code |-> kPreCheckErrorCode, pre_check_error |-> error,
              executed |-> FALSE]
        ELSE IF funds # NoError
        THEN [error_code |-> kPreCheckErrorCode, pre_check_error |-> funds,
              executed |-> FALSE]
        ELSE [error_code |-> EVMC_SUCCESS, pre_check_error |-> NoError,
              executed |-> TRUE]

InitExecutor == Init

\* executor.call(block, txn, {}, false, gasBailout) for a sender whose
\* balance is have
Call ==
    /\ \E block \in Blocks, txn \in Txns, have \in Balances,
          gasBailout \in BOOLEAN :
         evm' = [op |-> "call", block |-> block, txn |-> txn, have |-> have,
                 gasBailout |-> gasBailout,
                 result |-> call(block, txn, have, gasBailout)]
    /\ UNCHANGED <<handlerVars, tracerVars, kvVars, chain, compared>>

NextExecutor == Call

SpecExecutor == InitExecutor /\ [][NextExecutor]_vars

----------------------------------------------------------------------------
(* Properties of the checks made before execution *)

IntrinsicGasTooLow == "intrinsic gas too low: have 0, want 53000"

\* C23 as stated: a call with gas_limit 0 returns 'intrinsic gas too low:
\* have 0, want 53000' with error_code 1000 on any block, whatever the base
\* fee of the block and the fee fields of the transaction are
C23_IntrinsicGasOnAnyBlock ==
    evm.op = "call" /\ evm.txn.gas_limit = 0 =>
        /\ evm.result.error_code = 1000
        /\ evm.result.pre_check_error = <<IntrinsicGasTooLow>>

\* the fee fields of the transaction pass the checks of the block
FeesPass(block, txn) ==
    block.london =>
        /\ txn.max_fee_per_gas >= block.base_fee_per_gas
        /\ txn.max_priority_fee_per_gas <= txn.max_fee_per_gas

\* C23: a call with gas_limit 0 is never executed and returns error_code
\* 1000; the error is 'intrinsic gas too low: have 0, want 53000' on a block
\* before London and on a London block whose fee checks the transaction
\* passes, otherwise it is the error of the fee check
C23_IntrinsicGasAfterFees ==
    evm.op = "call" /\ evm.txn.gas_limit = 0 =>
        /\ evm.result.error_code = 1000
        /\ ~evm.result.executed
        /\ FeesPass(evm.block, evm.txn)
              <=> evm.result.pre_check_error = <<IntrinsicGasTooLow>>

\* a call with gas_limit 0 and fee cap 2 on a London block of base fee 7
\* has returned the fee cap error
C23_Witness ==
    /\ evm.op = "call"
    /\ evm.txn.gas_limit = 0
    /\ evm.block = [london |-> TRUE, base_fee_per_gas |-> 7]
    /\ evm.txn.max_fee_per_gas = 2
    /\ evm.txn.max_priority_fee_per_gas = 0
    /\ evm.result.pre_check_error =
           <<"fee cap less than block base fee: address 0xa872626373628737383927236382161739290870, gasFeeCap: 2 baseFee: 7">>

FeeCapMessage(txn, block) ==
    "fee cap less than block base fee: address 0xa872626373628737383927236382161739290870, gasFeeCap: "
        \o ToString(txn.max_fee_per_gas) \o " baseFee: "
        \o ToString(block.base_fee_per_gas)

TipMessage(txn) ==
    "tip higher than fee cap: address 0xa872626373628737383927236382161739290870, tip: "
        \o ToString(txn.max_priority_fee_per_gas) \o " gasFeeCap: "
        \o ToString(txn.max_fee_per_gas)

\* C24: on a London block a transaction whose max_fee_per_gas is below the
\* base fee of the block, or whose max_priority_fee_per_gas is above its
\* max_fee_per_gas, is not executed: the result has error_code 1000 and a
\* pre_check_error, 'fee cap less than block base fee: ...' or 'tip higher
\* than fee cap: ...' as the failing check demands, with the fields printed
\* in decimal
C24_FeeChecks ==
    evm.op = "call" /\ evm.block.london =>
        LET low == evm.txn.max_fee_per_gas < evm.block.base_fee_per_gas
            high == evm.txn.max_priority_fee_per_gas > evm.txn.max_fee_per_gas
        IN  low \/ high =>
                /\ evm.result.error_code = 1000
                /\ ~evm.result.executed
                /\ evm.result.pre_check_error \in
                       {<<FeeCapMessage(evm.txn, evm.block)>> : x \in {low} \ {FALSE}}
                       \cup {<<TipMessage(evm.txn)>> : x \in {high} \ {FALSE}}

\* a tip of 0x18 over a fee cap of 2 has been refused with 'tip: 24
\* gasFeeCap: 2'
C24_Witness ==
    /\ evm.op = "call"
    /\ evm.block = [london |-> TRUE, base_fee_per_gas |-> 1]
    /\ evm.txn.max_fee_per_gas = 2
    /\ evm.txn.max_priority_fee_per_gas = 24
    /\ evm.result.error_code = 1000
    /\ evm.result.pre_check_error =
           <<"tip higher than fee cap: address 0xa872626373628737383927236382161739290870, tip: 24 gasFeeCap: 2">>

\* gas_limit x price + value, the price being the tip over the base fee,
\* capped by max_fee_per_gas
Cost(block, txn) ==
    LET price == IF txn.max_priority_fee_per_gas + block.base_fee_per_gas
                        < txn.max_fee_per_gas
                 THEN txn.max_priority_fee_per_gas + block.base_fee_per_gas
                 ELSE txn.max_fee_per_gas
    IN  txn.gas_limit * price + txn.value

\* C25: for a transaction that passes the fee and intrinsic gas checks and
\* whose sender owns less than gas_limit x price + value, the call returns
\* 'insufficient funds for gas * price + value: address <from> have
\* <balance> want <cost>' with error_code 1000 if and only if gasBailout is
\* false; with gasBailout true the call is executed and returns error_code 0
C25_InsufficientFundsUnlessBailout ==
    (/\ evm.op = "call"
     /\ FeesPass(evm.block, evm.txn)
     /\ evm.txn.gas_limit >= 53000
     /\ evm.have < Cost(evm.block, evm.txn)) =>
        IF evm.gasBailout
        THEN /\ evm.result.executed
             /\ evm.result.error_code = 0
             /\ evm.result.pre_check_error = <<>>
        ELSE /\ ~evm.result.executed
             /\ evm.result.error_code = 1000
             /\ evm.result.pre_check_error =
                    <<"insufficient funds for gas * price + value: address 0xa872626373628737383927236382161739290870 have "
                      \o ToString(evm.have) \o " want "
                      \o ToString(Cost(evm.block, evm.txn))>>

\* a sender that owns 59999 has got a transaction of cost 60000 executed
\* with gasBailout
C25_Witness ==
    /\ evm.op = "call"
    /\ evm.gasBailout
    /\ evm.have = 59999
    /\ Cost(evm.block, evm.txn) = 60000
    /\ evm.result.executed
    /\ evm.result.error_code = 0

----------------------------------------------------------------------------
(* EVMExecutor::get_error_message: the message of a status code and the
   revert reason found in the return data *)

\* the status codes of evmc_status_code that have a message, three that have
\* none, and a number that is no status code
StatusCodes ==
    {"EVMC_FAILURE", "EVMC_REVERT", "EVMC_OUT_OF_GAS",
     "EVMC_INVALID_INSTRUCTION", "EVMC_UNDEFINED_INSTRUCTION",
     "EVMC_STACK_OVERFLOW", "EVMC_STACK_UNDERFLOW",
     "EVMC_BAD_JUMP_DESTINATION", "EVMC_INVALID_MEMORY_ACCESS",
     "EVMC_CALL_DEPTH_EXCEEDED", "EVMC_STATIC_MODE_VIOLATION",
     "EVMC_PRECOMPILE_FAILURE", "EVMC_CONTRACT_VALIDATION_FAILURE",
     "EVMC_ARGUMENT_OUT_OF_RANGE", "EVMC_WASM_UNREACHABLE_INSTRUCTION",
     "EVMC_WASM_TRAP", "EVMC_INTERNAL_ERROR", "EVMC_REJECTED",
     "EVMC_OUT_OF_MEMORY", "8888"}

short_message_OpcodeName(error_code) ==
    CASE error_code = "EVMC_FAILURE" -> "execution failed"
      [] error_code = "EVMC_REVERT" -> "execution reverted"
      [] error_code = "EVMC_UNDEFINED_INSTRUCTION" -> "undefined instruction"
      [] OTHER -> "unknown error code"

\* the switch of get_error_message over the status code
short_message(error_code) ==
    CASE error_code = "EVMC_FAILURE" -> "execution failed"
      [] error_code = "EVMC_REVERT" -> "execution reverted"
      [] error_code = "EVMC_OUT_OF_GAS" -> "out of gas"
      [] error_code = "EVMC_INVALID_INSTRUCTION" -> "invalid instruction"
      [] error_code = "EVMC_UNDEFINED_INSTRUCTION" -> "invalid opcode"
      [] error_code = "EVMC_STACK_OVERFLOW" -> "stack overflow"
      [] error_code = "EVMC_STACK_UNDERFLOW" -> "stack underflow"
      [] error_code = "EVMC_BAD_JUMP_DESTINATION" -> "invalid jump destination"
      [] error_code = "EVMC_INVALID_MEMORY_ACCESS" -> "invalid memory access"
      [] error_code = "EVMC_CALL_DEPTH_EXCEEDED" -> "call depth exceeded"
      [] error_code = "EVMC_STATIC_MODE_VIOLATION" -> "static mode violation"
      [] error_code = "EVMC_PRECOMPILE_FAILURE" -> "precompile failure"
      [] error_code = "EVMC_CONTRACT_VALIDATION_FAILURE"
            -> "contract validation failure"
      [] error_code = "EVMC_ARGUMENT_OUT_OF_RANGE" -> "argument out of range"
      [] error_code = "EVMC_WASM_UNREACHABLE_INSTRUCTION"
            -> "wasm unreachable instruction"
      [] error_code = "EVMC_WASM_TRAP" -> "wasm trap"
      [] OTHER -> "unknown error code"

\* the selector of Error(string)
kRevertSelector == <<8, 195, 121, 160>>

\* the size of an ABI word
kAbiWordSize == 32

\* the bytes of "Ownable: caller is not the owner"
kOwnable ==
    <<79, 119, 110, 97, 98, 108, 101, 58, 32, 99, 97, 108, 108, 101, 114, 32,
      105, 115, 32, 110, 111, 116, 32, 116, 104, 101, 32, 111, 119, 110, 101,
      114>>

\* the character of a byte of the reasons
Chr(b) ==
    CASE b = 32 -> " " [] b = 58 -> ":" [] b = 79 -> "O" [] b = 97 -> "a"
      [] b = 98 -> "b" [] b = 99 -> "c" [] b = 101 -> "e" [] b = 104 -> "h"
      [] b = 105 -> "i" [] b = 108 -> "l" [] b = 110 -> "n" [] b = 111 -> "o"
      [] b = 114 -> "r" [] b = 115 -> "s" [] b = 116 -> "t" [] b = 119 -> "w"

RECURSIVE to_std_string(_)
\* std::string{begin, end} over the bytes of the reason
to_std_string(bytes) ==
    IF bytes = <<>> THEN ""
    ELSE Chr(Head(bytes)) \o to_std_string(Tail(bytes))

\* the reasons: the first n characters of the text repeated over and over,
\* for the lengths next to 0 and next to the size of a word
Reasons ==
    {[i \in 1..n |-> kOwnable[((i - 1) % kAbiWordSize) + 1]] :
        n \in {k \in 0..MaxReasonLen : k <= 1 \/ k >= kAbiWordSize - 1}}

\* a number below 2^24 as an ABI word
pad32(n) ==
    [i \in 1..kAbiWordSize |->
        IF i = kAbiWordSize THEN n % 256
        ELSE IF i = kAbiWordSize - 1 THEN (n \div 256) % 256
        ELSE IF i = kAbiWordSize - 2 THEN (n \div 65536) % 256
        ELSE 0]

\* the return data of revert(reason), without the zeros that fill the last
\* word
abi_revert(reason) ==
    kRevertSelector \o pad32(kAbiWordSize) \o pad32(Len(reason)) \o reason

\* the return data of revert(reason) as the EVM returns it
abi_revert_padded(reason) ==
    abi_revert(reason)
        \o [i \in 1..((kAbiWordSize - (Len(reason) % kAbiWordSize))
                         % kAbiWordSize) |-> 0]

\* where the return data of a reason is cut: nowhere left, inside the
\* selector, inside the offset, inside the length, one byte before the end
\* of the reason
Cuts(reason) ==
    {0, 2, 4 + kAbiWordSize - 2, 4 + kAbiWordSize + (kAbiWordSize \div 2)}
        \cup {4 + 2 * kAbiWordSize + Len(reason) - 1 : x \in {reason} \ {<<>>}}

\* the return data of the calls
ErrorData ==
    UNION {{abi_revert(reason), abi_revert_padded(reason)}
               \cup {SubSeq(abi_revert(reason), 1, k) : k \in Cuts(reason)} :
           reason \in Reasons}
    \cup {<<8, 195, 121, 161>> \o SubSeq(abi_revert(kOwnable), 5,
                                         4 + 3 * kAbiWordSize)}

\* the number of an ABI word; a word whose number does not fit 24 bits
\* stands for a number above every size
load(data, at) ==
    IF \E i \in 1..(kAbiWordSize - 3) : data[at + i] # 0 THEN 16777216
    ELSE data[at + kAbiWordSize - 2] * 65536
             + data[at + kAbiWordSize - 1] * 256 + data[at + kAbiWordSize]

NoReason == [found |-> FALSE, reason |-> <<>>, read |-> 0]

decode_error_reason_Available(data) ==
    IF Len(data) < Len(kRevertSelector) THEN NoReason
    ELSE IF SubSeq(data, 1, Len(kRevertSelector)) # kRevertSelector
    THEN NoReason
    ELSE IF Len(data) < Len(kRevertSelector) + 2 * kAbiWordSize THEN NoReason
    ELSE [found |-> TRUE,
          reason |-> SubSeq(data, Len(kRevertSelector) + 2 * kAbiWordSize + 1,
                            Len(data)),
          read |-> Len(data)]

\* decode_error_reason(error_data): the string of Error(string) when the
\* data holds the selector, the offset word, the length word and as many
\* bytes as the length says; read is the last byte looked at
decode_error_reason(data) ==
    LET s == Len(kRevertSelector)
    IN  IF Len(data) < s THEN NoReason
        ELSE IF SubSeq(data, 1, s) # kRevertSelector
        THEN [NoReason EXCEPT !.read = s]
        ELSE IF Len(data) < s + kAbiWordSize
        THEN [NoReason EXCEPT !.read = s]
        ELSE IF load(data, s) # kAbiWordSize
        THEN [NoReason EXCEPT !.read = s + kAbiWordSize]
        ELSE IF Len(data) < s + 2 * kAbiWordSize
        THEN [NoReason EXCEPT !.read = s + kAbiWordSize]
        ELSE LET length == load(data, s + kAbiWordSize)
             IN  IF Len(data) < s + 2 * kAbiWordSize + length
                 THEN [NoReason EXCEPT !.read = s + 2 * kAbiWordSize]
                 ELSE [found |-> TRUE,
                       reason |-> SubSeq(data, s + 2 * kAbiWordSize + 1,
                                         s + 2 * kAbiWordSize + length),
                       read |-> s + 2 * kAbiWordSize + length]

get_error_message_Short(error_code, error_data, full_error) ==
    [message |-> short_message(error_code), read |-> 0]

\* EVMExecutor::get_error_message(error_code, error_data, full_error)
get_error_message(error_code, error_data, full_error) ==
    LET decoded == decode_error_reason(error_data)
    IN  IF full_error /\ decoded.found
        THEN [message |-> short_message(error_code) \o ": "
                              \o to_std_string(decoded.reason),
              read |-> decoded.read]
        ELSE [message |-> short_message(error_code),
              read |-> IF full_error THEN decoded.read ELSE 0]

InitErrorMessage == Init

\* executor.get_error_message(error_code, error_data, full_error)
GetErrorMessage ==
    /\ \E error_code \in StatusCodes, error_data \in ErrorData,
          full_error \in BOOLEAN :
         LET res == get_error_message(error_code, error_data, full_error)
         IN  evm' = [op |-> "get_error_message", error_code |-> error_code,
                     error_data |-> error_data, full_error |-> full_error,
                     message |-> res.message, read |-> res.read]
    /\ UNCHANGED <<handlerVars, tracerVars, kvVars, chain, compared>>

NextErrorMessage == GetErrorMessage

SpecErrorMessage == InitErrorMessage /\ [][NextErrorMessage]_vars

----------------------------------------------------------------------------
(* Properties of get_error_message *)

\* the closed table of messages
MessageTable ==
    {<<"EVMC_REVERT", "execution reverted">>,
     <<"EVMC_OUT_OF_GAS", "out of gas">>,
     <<"EVMC_INVALID_INSTRUCTION", "invalid instruction">>,
     <<"EVMC_UNDEFINED_INSTRUCTION", "invalid opcode">>,
     <<"EVMC_STACK_OVERFLOW", "stack overflow">>,
     <<"EVMC_STACK_UNDERFLOW", "stack underflow">>,
     <<"EVMC_BAD_JUMP_DESTINATION", "invalid jump destination">>,
     <<"EVMC_INVALID_MEMORY_ACCESS", "invalid memory access">>,
     <<"EVMC_CALL_DEPTH_EXCEEDED", "call depth exceeded">>,
     <<"EVMC_STATIC_MODE_VIOLATION", "static mode violation">>,
     <<"EVMC_PRECOMPILE_FAILURE", "precompile failure">>,
     <<"EVMC_CONTRACT_VALIDATION_FAILURE", "contract validation failure">>,
     <<"EVMC_ARGUMENT_OUT_OF_RANGE", "argument out of range">>,
     <<"EVMC_WASM_UNREACHABLE_INSTRUCTION", "wasm unreachable instruction">>,
     <<"EVMC_WASM_TRAP", "wasm trap">>,
     <<"EVMC_FAILURE", "execution failed">>}

\* the message the table gives a status code
ShortForm(code) ==
    IF \E row \in MessageTable : row[1] = code
    THEN (CHOOSE row \in MessageTable : row[1] = code)[2]
    ELSE "unknown error code"

\* C26: with decoding disabled get_error_message returns, for every status
\* code, the string of the closed table, 'unknown error code' for every code
\* outside the table, whatever the return data is
C26_ClosedTable ==
    evm.op = "get_error_message" /\ ~evm.full_error =>
        evm.message = ShortForm(evm.error_code)

\* a number that is no status code has got 'unknown error code' for the
\* return data of a revert
C26_Witness ==
    /\ evm.op = "get_error_message"
    /\ ~evm.full_error
    /\ evm.error_code = "8888"
    /\ evm.error_data = abi_revert(kOwnable)
    /\ evm.message = "unknown error code"

\* the return data is the data of a revert cut before the end of its reason
Truncated(data) ==
    \E reason \in Reasons :
        \E k \in 0..(Len(abi_revert(reason)) - 1) :
            data = SubSeq(abi_revert(reason), 1, k)

\* C27: with decoding enabled, return data cut inside the selector, inside
\* the offset word, inside the length word or inside the reason gets the
\* short message of the status alone, and no byte after the end of the data
\* is read
C27_TruncatedIsShort ==
    (/\ evm.op = "get_error_message"
     /\ evm.full_error
     /\ Truncated(evm.error_data)) =>
        /\ evm.message = ShortForm(evm.error_code)
        /\ evm.read <= Len(evm.error_data)

\* return data that lacks the last byte of a reason of 32 bytes has got
\* 'execution failed'
C27_Witness ==
    /\ evm.op = "get_error_message"
    /\ evm.full_error
    /\ evm.error_code = "EVMC_FAILURE"
    /\ evm.error_data = SubSeq(abi_revert(kOwnable), 1, 99)
    /\ evm.message = "execution failed"

\* C28: for every reason s, get_error_message with decoding enabled on
\* 0x08c379a0 || pad32(32) || pad32(len(s)) || s, with or without the zeros
\* that fill the last word, returns the short message of the status, ': '
\* and s; with decoding disabled it returns the short message alone
C28_ReasonRoundTrip ==
    evm.op = "get_error_message" =>
        \A reason \in Reasons :
            evm.error_data \in {abi_revert(reason), abi_revert_padded(reason)}
                => evm.message =
                       IF evm.full_error
                       THEN ShortForm(evm.error_code) \o ": "
                                \o to_std_string(reason)
                       ELSE ShortForm(evm.error_code)

\* the return data of a reason of 33 bytes, filled up to two words, has got
\* its message with the reason
C28_Witness ==
    /\ evm.op = "get_error_message"
    /\ evm.full_error
    /\ evm.error_code = "EVMC_REVERT"
    /\ Len(evm.error_data) = 4 + 4 * 32
    /\ evm.message =
           "execution reverted: Ownable: caller is not the ownerO"

\* C31: a call reports at most one pre-check error, and the fee checks come
\* before the intrinsic gas check: a transaction whose gas_limit is below
\* the intrinsic gas and whose max_fee_per_gas is below the base fee of the
\* block, or whose max_priority_fee_per_gas is above its max_fee_per_gas,
\* is reported with the fee error and not with 'intrinsic gas too low'
C31_OneErrorFeesFirst ==
    evm.op = "call" =>
        /\ Len(evm.result.pre_check_error) <= 1
        /\ (/\ evm.txn.gas_limit < 53000
            /\ ~FeesPass(evm.block, evm.txn)) =>
               /\ evm.result.pre_check_error # <<>>
               /\ evm.result.pre_check_error[1] \in
                      {FeeCapMessage(evm.txn, evm.block), TipMessage(evm.txn)}

\* a transaction of gas_limit 52999 and fee cap 0 on a block of base fee 7,
\* sent by an account that owns nothing, has got the fee cap error alone
C31_Witness ==
    /\ evm.op = "call"
    /\ evm.txn.gas_limit = 52999
    /\ evm.block.base_fee_per_gas = 7
    /\ evm.txn.max_fee_per_gas = 0
    /\ evm.have = 0
    /\ ~evm.gasBailout
    /\ evm.result.pre_check_error = <<FeeCapMessage(evm.txn, evm.block)>>

----------------------------------------------------------------------------
(* Two handlers that reach the executor, running concurrently *)

\* the requests of these runs: one well-formed request of each method that
\* constructs an executor
ExecRequests ==
    {q \in Requests :
        /\ q.method # "trace_transaction_stream"
        /\ q.nparams = MinParams(q.method)
        /\ q.bad = 0
        /\ q.method = "trace_rawTransaction" =>
               q.raw = [hex |-> TRUE, rlp |-> TRUE, max_fee_per_gas |-> 0,
                        gas_limit |-> 0, replay_protected |-> TRUE,
                        recoverable |-> TRUE]
        /\ q.method = "trace_get" => q.indices = << <<"0", "x", "0">> >>}

InvokeExec(r) == InvokeWith(r, ExecRequests)

NextExec ==
    \E r \in Reqs :
        \/ InvokeExec(r)
        \/ Begin(r)
        \/ Throw(r)
        \/ GetLatestBlockNumber(r)
        \/ ReadBlock(r)
        \/ IsLatestBlock(r)
        \/ ReadTransactionByHash(r)
        \/ ExecutorCall(r)
        \/ ExecutorReturn(r)
        \/ Close(r)

SpecExec == Init /\ [][NextExec]_vars

\* C33: the executor runs only while the read transaction of its request is
\* open: in every handler the executor is called after begin() has returned
\* and returns before close() is called, and the database reader it was
\* given reads through that same transaction; no executor runs on a closed
\* transaction
C33_ExecutorInsideTransaction ==
    \A r \in Reqs :
        /\ pc[r] = "executing" =>
               /\ tx[r] # 0
               /\ tx[r] \in open
               /\ closes[r] = 0
        /\ execCalls[r] > 0 =>
               /\ readerTx[r] = tx[r]
               /\ readerTx[r] # 0
               /\ \A o \in Reqs \ {r} : readerTx[r] # tx[o]
        /\ closes[r] > 0 => pc[r] # "executing"

\* the executor of the second transaction runs after the first transaction
\* was closed
C33_Witness ==
    \E r \in Reqs, o \in Reqs :
        /\ pc[r] = "executing"
        /\ tx[r] = 2
        /\ readerTx[r] = 2
        /\ req[r].method = "trace_rawTransaction"
        /\ pc[o] = "done"
        /\ closes[o] = 1
        /\ req[o].method = "trace_replayBlockTransactions"
        /\ execCalls[o] = 1

----------------------------------------------------------------------------
(* Further properties of the handlers *)

\* read_transaction_by_hash has returned an empty optional to the handler
NotFound(r) ==
    /\ req[r].method \in TxHashMethods
    /\ tx[r] # 0
    /\ pc[r] # "read_tx"
    /\ blockNum[r] = -1
    /\ fault[r] = NoFault

\* C32: when read_transaction_by_hash returns an empty optional no fault is
\* raised: trace_replayTransaction replies with the error -32000 'transaction
\* 0x<hash> not found', trace_get and trace_transaction reply with empty
\* content; in all three the executor is never invoked and the handler goes
\* on to close the read transaction
C32_AbsenceIsNoFault ==
    \A r \in Reqs :
        (NotFound(r) /\ req[r].method # "trace_transaction_stream") =>
            /\ IF req[r].method = "trace_replayTransaction"
               THEN /\ reply[r].kind = "error"
                    /\ reply[r].code = -32000
                    /\ reply[r].msg = "transaction 0x<hash> not found"
               ELSE reply[r] = EmptyContent
            /\ execCalls[r] = 0
            /\ ~result[r].returned
            /\ pc[r] \in {"close", "done"}
            /\ pc[r] = "done" => closes[r] = 1 /\ tx[r] \notin open

\* trace_replayTransaction has returned for a transaction that was not found
C32_Witness ==
    \E r \in Reqs :
        /\ NotFound(r)
        /\ req[r].method = "trace_replayTransaction"
        /\ pc[r] = "done"
        /\ reply[r].code = -32000
        /\ closes[r] = 1

\* a trace_get request whose params[1] is the empty array, past its parsing
EmptyIndexList(r) ==
    /\ pc[r] # "idle"
    /\ req[r].method = "trace_get"
    /\ req[r].nparams >= 2
    /\ req[r].bad = 0
    /\ req[r].indices = <<>>

\* C34: trace_get reads an index only when the index list is not empty: a
\* request whose index array is empty gets a well-defined reply, empty
\* content or an error, and the handler never reads indices[0] of the empty
\* list
C34_EmptyIndexListNotRead ==
    \A r \in Reqs :
        EmptyIndexList(r) =>
            /\ pc[r] # "crashed"
            /\ reply[r].kind \in {"none", "empty", "error"}
            /\ ~(result[r].returned /\ fault[r] = NoFault)

\* a trace_get request with one index string that std::stoi accepts, past
\* its parsing
OneIndex(r) ==
    /\ pc[r] \notin {"idle", "threw"}
    /\ req[r].method = "trace_get"
    /\ req[r].nparams >= 2
    /\ req[r].bad = 0
    /\ Len(req[r].indices) = 1
    /\ stoi(req[r].indices[1]).ok

\* C35: for trace_get the position that selects the frame is the integer
\* value of the hexadecimal index string plus one, for every index string
\* the parser accepts: a value of 2^16 or more, or a negative one, is never
\* reduced modulo 2^16 to another position
C35_IndexNotReduced ==
    \A r \in Reqs :
        OneIndex(r) =>
            /\ indices[r] = <<stoi(req[r].indices[1]).val>>
            /\ (/\ result[r].returned
                /\ fault[r] = NoFault
                /\ pc[r] \in {"close", "done"}) =>
                   reply[r] = GetReply(result[r], stoi(req[r].indices[1]).val)

\* C36: handle_trace_transaction_stream writes a JSON reply to the stream
\* for every request it handles: an error when parameters are missing, empty
\* content when the transaction is not found, the traces when it is found,
\* an error when processing throws; no path returns without a written reply
C36_StreamAlwaysWrites ==
    \A r \in Reqs :
        (req[r].method = "trace_transaction_stream" /\ pc[r] = "done") =>
            /\ Len(written[r]) = 1
            /\ req[r].nparams < 1 => written[r][1].kind = "error"
            /\ fault[r] # NoFault => written[r][1].kind = "error"
            /\ (req[r].nparams >= 1 /\ fault[r] = NoFault) =>
                   written[r][1].kind =
                       IF blockNum[r] = -1 THEN "empty" ELSE "traces"

----------------------------------------------------------------------------
(* Further properties of the AccessListTracer *)

\* a callback that on_instruction_start does not record: an opcode outside
\* the three classes, a storage or contract opcode on an empty stack, a call
\* opcode on fewer than five items, a contract or call opcode whose address
\* operand exclude() rejects
Unrecorded(cb) ==
    \/ cb.opcode \notin StorageOpcodes \cup ContractOpcodes \cup CallOpcodes
    \/ cb.opcode \in StorageOpcodes \cup ContractOpcodes /\ Len(cb.stack) < 1
    \/ cb.opcode \in CallOpcodes /\ Len(cb.stack) < 5
    \/ /\ cb.opcode \in ContractOpcodes
       /\ Len(cb.stack) >= 1
       /\ exclude(AddressOf(cb.stack[1]))
    \/ /\ cb.opcode \in CallOpcodes
       /\ Len(cb.stack) >= 5
       /\ exclude(AddressOf(cb.stack[2]))

\* C37: on_instruction_start leaves the access list unchanged for every
\* opcode outside the three recorded classes, undefined opcodes included,
\* for SLOAD/SSTORE and contract-inspection opcodes on a stack of height < 1,
\* for call opcodes on a stack of height < 5, and for contract and call
\* opcodes whose address operand is excluded; on_execution_start never
\* changes the access list
C37_UnrecordedLeavesList ==
    [][/\ steps' = steps => access_list_' = access_list_
       /\ (steps' # steps /\ Unrecorded(last')) =>
              access_list_' = access_list_]_vars

\* a CALL on a stack of four items, whose operand is neither excluded nor in
\* the list, has left a list of one entry as it was
C37_Witness ==
    /\ steps = 2
    /\ last.opcode = 241
    /\ Len(last.stack) = 4
    /\ ~exclude(AddressOf(last.stack[2]))
    /\ AddressOf(last.stack[2]) \notin Accounts(prev)
    /\ Len(prev) = 1
    /\ access_list_ = prev

----------------------------------------------------------------------------
(* AccessListTracer::compare                                               *)

\* the accounts and the storage keys of the lists that are compared
CompareAccounts == {AddressOf(0), AddressOf(1)}
CompareKeys == {KeyOf(0), KeyOf(1), KeyOf(2)}

\* a sequence without a repeated element
DuplicateFree(q) == \A i, j \in 1..Len(q) : q[i] = q[j] => i = j

KeyLists == {k \in SeqsUpTo(CompareKeys, MaxKeys) : DuplicateFree(k)}

AccessListEntries == [account : CompareAccounts, storage_keys : KeyLists]

\* the access lists without a repeated account, as add_address and
\* add_storage build them
AccessLists ==
    {l \in SeqsUpTo(AccessListEntries, MaxEntries) :
        DuplicateFree([i \in 1..Len(l) |-> l[i].account])}

\* bool match_storage = false; for (z ...) { for (t ...) { if (keys2[t] ==
\* keys1[z]) { match_storage = true; break; } } if (!match_storage) return
\* false; }: match_storage is declared outside the loop over z and keeps its
\* value from one key to the next
RECURSIVE match_keys(_, _, _, _)
match_keys(keys1, keys2, z, match_storage) ==
    IF z > Len(keys1) THEN TRUE
    ELSE LET found == \E t \in 1..Len(keys2) : keys2[t] = keys1[z]
             now == match_storage \/ found
         IN  IF ~now THEN FALSE
             ELSE match_keys(keys1, keys2, z + 1, now)

\* the body of the loop over i, from entry i of acl1 on: the first entry of
\* acl2 with the same account is looked for, the sizes of the key lists are
\* compared, then the keys
RECURSIVE match_entries(_, _, _)
match_entries(acl1, acl2, i) ==
    IF i > Len(acl1) THEN TRUE
    ELSE LET j == IndexOfAccount(acl2, acl1[i].account)
         IN  IF j = 0 THEN FALSE
             ELSE IF Len(acl2[j].storage_keys) # Len(acl1[i].storage_keys)
             THEN FALSE
             ELSE IF ~match_keys(acl1[i].storage_keys, acl2[j].storage_keys,
                                 1, FALSE)
             THEN FALSE
             ELSE match_entries(acl1, acl2, i + 1)

\* AccessListTracer::compare(acl1, acl2)
compare(acl1, acl2) ==
    IF Len(acl1) # Len(acl2) THEN FALSE
    ELSE match_entries(acl1, acl2, 1)

\* two access lists are at hand
InitCompare ==
    /\ HandlerInit /\ TracerIdle /\ KvIdle /\ ChainIdle /\ EvmIdle
    /\ compared \in [op : {"lists"}, acl1 : AccessLists, acl2 : AccessLists]

\* AccessListTracer::compare(acl1, acl2) is called on them
Compare ==
    /\ compared.op = "lists"
    /\ compared' = [op |-> "compare", acl1 |-> compared.acl1,
                    acl2 |-> compared.acl2,
                    result |-> compare(compared.acl1, compared.acl2)]
    /\ UNCHANGED <<handlerVars, tracerVars, kvVars, chain, evm>>

NextCompare == Compare

SpecCompare == InitCompare /\ [][NextCompare]_vars

----------------------------------------------------------------------------
(* Properties of AccessListTracer::compare *)

\* the storage keys an access list holds for an account
KeysOf(list, account) ==
    UNION {Keys(list[i]) : i \in {k \in 1..Len(list) : list[k].account = account}}

\* the two lists hold the same accounts and, for each, the same keys
SameAccess(a, b) ==
    /\ Accounts(a) = Accounts(b)
    /\ \A account \in Accounts(a) : KeysOf(a, account) = KeysOf(b, account)

\* C38: for access lists a and b without duplicates compare(a, b) is true
\* if and only if a and b hold the same set of accounts and, for every
\* account, the same set of storage keys
C38_CompareIsSetEquality ==
    compared.op = "compare" =>
        (compared.result <=> SameAccess(compared.acl1, compared.acl2))

\* the orders in which the elements of a sequence can stand
Reorderings(q) ==
    {[i \in 1..Len(q) |-> q[p[i]]] : p \in Permutations(1..Len(q))}

\* the lists that differ from list in the order of the keys inside entries
RECURSIVE KeysReordered(_)
KeysReordered(list) ==
    IF list = <<>> THEN {<<>>}
    ELSE {<<[account |-> Head(list).account, storage_keys |-> k]>> \o t :
              k \in Reorderings(Head(list).storage_keys),
              t \in KeysReordered(Tail(list))}

\* the lists that differ from list in the order of entries and of keys
Rearranged(list) == UNION {Reorderings(l) : l \in KeysReordered(list)}

\* C39: compare is symmetric and does not depend on order, on access lists
\* without duplicates: compare(a, b) = compare(b, a), and permuting the
\* entries of either list, or the storage keys inside an entry, does not
\* change the result
C39_CompareSymmetricAnyOrder ==
    compared.op = "compare" =>
        /\ compared.result = compare(compared.acl2, compared.acl1)
        /\ \A a \in Rearranged(compared.acl1), b \in Rearranged(compared.acl2) :
               compare(a, b) = compared.result

====
